---------------------------- MODULE Spec2Model ----------------------------
(***************************************************************************)
(* DocSearch: the index manager (opensearch_manager.py), the mapping       *)
(* migration script (update_index_mapping.py), the answer engine           *)
(* (rag_engine.py), the document parser (document_parser.py), the upload    *)
(* and search handlers (app.py) and the highlighting-settings script       *)
(* (fix_index_highlighting.py), as state machines over one search backend, *)
(* one upload folder and one clock; and the MSSQL upload service           *)
(* (microservizi/api.py) over one table.                                   *)
(***************************************************************************)
EXTENDS Integers, Sequences, FiniteSets, TLC

VARIABLES
  indices,    \* the backend: index name -> index state
  nextId,     \* the backend's next document id
  written,    \* history: doc id -> the parsed document index_document wrote
  lastOp,     \* the last call of the manager: its arguments, requests, result
  mig,        \* update_index_mapping.py: position and locals of main()
  sq,         \* the last call of search: its requests and its result
  rag,        \* the answer engine and its last call of generate_answer
  disk,       \* the upload folder: file path -> bytes
  clock,      \* the wall clock read by datetime.now()
  up,         \* api_upload requests in flight: request -> locals
  dirUp,      \* api_upload_directory: position in the loop, tally, response
  pcall,      \* the last call of the document parser or of one of its helpers
  sql,        \* the MSSQL upload service: the table and the requests in flight
  fix         \* fix_index_highlighting.py: position of main() and the index it closes

idxVars == <<indices, nextId, written, lastOp>>
upVars  == <<disk, clock, up, dirUp>>
vars    == <<indices, nextId, written, lastOp, mig, sq, rag, disk, clock, up, dirUp,
            pcall, sql, fix>>

-----------------------------------------------------------------------------
(* Bounds of the model *)

MaxIds == 2       \* document ids the backend hands out
MaxFiles == 3     \* files in one directory upload
MaxResults == 3   \* results handed to generate_answer
MaxClock == 2     \* microseconds, and seconds, the clock moves on

-----------------------------------------------------------------------------
(* The backend's indices *)

IndexName == "documents"
TempIndex == "documents_temp"
IndexNames == {IndexName, TempIndex}

HighlightLimit == 10000000
DefaultHighlightLimit == 1000000

EmptyDocs == [i \in {} |-> 0]

NoIndex ==
  [exists |-> FALSE, max_analyzed_offset |-> 0, attachment_fields |-> FALSE,
   docs |-> EmptyDocs]

\* the body create_index sends: settings and mappings
ManagerMapping ==
  [max_analyzed_offset |-> HighlightLimit, attachment_fields |-> FALSE]

\* the body the migration script sends: no highlight setting, so the backend
\* default applies; three attachment fields more
MigrationMapping ==
  [max_analyzed_offset |-> DefaultHighlightLimit, attachment_fields |-> TRUE]

NewIndex(mapping) ==
  [exists |-> TRUE, max_analyzed_offset |-> mapping.max_analyzed_offset,
   attachment_fields |-> mapping.attachment_fields, docs |-> EmptyDocs]

Get(d, k, default) == IF k \in DOMAIN d THEN d[k] ELSE default

NoneDoc == [isNone |-> TRUE]

Count(ix, name) == Cardinality(DOMAIN ix[name].docs)

-----------------------------------------------------------------------------
(* Strings are sequences of characters *)

Range(f) == {f[i] : i \in DOMAIN f}

Min(a, b) == IF a <= b THEN a ELSE b

EmptyRec == [k \in {} |-> 0]

NL == "\n"

Whitespace == {" ", NL, "\t", "\r"}

\* str.strip(): leading and trailing whitespace removed
RECURSIVE StripLeft(_)
StripLeft(s) ==
  IF s # <<>> /\ Head(s) \in Whitespace THEN StripLeft(Tail(s)) ELSE s

RECURSIVE StripRight(_)
StripRight(s) ==
  IF s # <<>> /\ s[Len(s)] \in Whitespace
  THEN StripRight(SubSeq(s, 1, Len(s) - 1)) ELSE s

StripStr(s) == StripRight(StripLeft(s))

\* sub in s
Contains(sub, s) ==
  \E i \in 0..(Len(s) - Len(sub)) : SubSeq(s, i + 1, i + Len(sub)) = sub

\* str.split(sep) for a one-character separator: the pieces between one
\* separator (or the start) and the next (or the end)
Split(s, sep) ==
  LET at == {i \in DOMAIN s : s[i] = sep}
      cut(k) == IF k = 0 THEN 0
                ELSE IF k = Cardinality(at) + 1 THEN Len(s) + 1
                ELSE CHOOSE i \in at : Cardinality({j \in at : j < i}) = k - 1
  IN  [k \in 1..(Cardinality(at) + 1) |-> SubSeq(s, cut(k - 1) + 1, cut(k) - 1)]

UpperCase == <<"A", "B", "C", "D", "E", "F", "G", "H", "I", "J", "K", "L", "M", "N", "O",
    "P", "Q", "R", "S", "T", "U", "V", "W", "X", "Y", "Z">>
LowerCase == <<"a", "b", "c", "d", "e", "f", "g", "h", "i", "j", "k", "l", "m", "n", "o",
    "p", "q", "r", "s", "t", "u", "v", "w", "x", "y", "z">>
Digits == <<"0", "1", "2", "3", "4", "5", "6", "7", "8", "9">>

\* str.lower(), str.upper()
LowerChar(c) ==
  IF c \in Range(UpperCase)
  THEN LowerCase[CHOOSE i \in DOMAIN UpperCase : UpperCase[i] = c] ELSE c

UpperChar(c) ==
  IF c \in Range(LowerCase)
  THEN UpperCase[CHOOSE i \in DOMAIN LowerCase : LowerCase[i] = c] ELSE c

Lower(s) == [i \in DOMAIN s |-> LowerChar(s[i])]
Upper(s) == [i \in DOMAIN s |-> UpperChar(s[i])]

-----------------------------------------------------------------------------
(* OpenSearchManager.create_index *)

\* a plausible slip: the existing index is never deleted
CreateIndexPlan_keepsIndex(ix, force) ==
  IF ix[IndexName].exists THEN IF force THEN <<"exists", "exists">> ELSE <<"exists">>
  ELSE IF force THEN <<"exists", "exists", "create">> ELSE <<"exists", "create">>

\* a plausible slip: force is not consulted, the index is always rebuilt
CreateIndexPlan_ignoresForce(ix, force) ==
  IF ix[IndexName].exists THEN <<"exists", "delete", "exists", "create">>
  ELSE <<"exists", "exists", "create">>

\* the backend requests create_index sends, in order, when none of them fails
CreateIndexPlan(ix, force) ==
  LET first  == IF force
                THEN IF ix[IndexName].exists THEN <<"exists", "delete">>
                     ELSE <<"exists">>
                ELSE <<>>
      gone   == force \/ ~ix[IndexName].exists
  IN  first \o (IF gone THEN <<"exists", "create">> ELSE <<"exists">>)

ApplyIndexCall(ix, call) ==
  CASE call = "delete" -> [ix EXCEPT ![IndexName] = NoIndex]
    [] call = "create" -> [ix EXCEPT ![IndexName] = NewIndex(ManagerMapping)]
    [] OTHER -> ix

RECURSIVE ApplyIndexCalls(_, _)
ApplyIndexCalls(ix, calls) ==
  IF calls = <<>> THEN ix
  ELSE ApplyIndexCalls(ApplyIndexCall(ix, Head(calls)), Tail(calls))

\* failAt = 0: every request succeeds; failAt = k: the k-th request raises
CreateIndexRun(ix, force, failAt) ==
  LET plan == CreateIndexPlan(ix, force)
      sent == IF failAt = 0 THEN plan ELSE SubSeq(plan, 1, failAt)
      done == IF failAt = 0 THEN plan ELSE SubSeq(plan, 1, failAt - 1)
  IN  [indices |-> ApplyIndexCalls(ix, done), calls |-> sent, raised |-> failAt # 0]

CreateIndex(force, failAt) ==
  /\ failAt <= Len(CreateIndexPlan(indices, force))
  /\ LET r == CreateIndexRun(indices, force, failAt) IN
       /\ indices' = r.indices
       /\ lastOp' = [op |-> "create_index", force |-> force,
                     existed |-> indices[IndexName].exists,
                     hadDocs |-> Count(indices, IndexName) > 0,
                     calls |-> r.calls, raised |-> r.raised]
  /\ UNCHANGED <<nextId, written, mig, sq, rag, pcall, sql, fix>>
  /\ UNCHANGED upVars

-----------------------------------------------------------------------------
(* OpenSearchManager.index_document, get_document, delete_document *)

\* results of DocumentParser.parse as the upload handlers hand them on
ParsedA ==
  \* 'a.txt', '.txt'
  [success |-> TRUE, filename |-> <<"a", ".", "t", "x", "t">>, extension |-> <<".", "t",
      "x", "t">>,
   \* 'Text Document', 'alpha beta alpha'
   type |-> <<"T", "e", "x", "t", " ", "D", "o", "c", "u", "m", "e", "n", "t">>,
       content |-> <<"a", "l", "p", "h", "a", " ", "b", "e", "t", "a", " ", "a", "l", "p",
       "h", "a">>,
   \* 'alpha beta alpha'
   summary |-> <<"a", "l", "p", "h", "a", " ", "b", "e", "t", "a", " ", "a", "l", "p",
       "h", "a">>,
   \* 'alpha', 'beta', 'manual', '/uploads/a.txt'
   keywords |-> <<<<"a", "l", "p", "h", "a">>, <<"b", "e", "t", "a">>>>, tags |-> <<<<"m",
       "a", "n", "u", "a", "l">>>>, metadata |-> [size |-> 16, path |-> <<"/", "u", "p",
       "l", "o", "a", "d", "s", "/", "a", ".", "t", "x", "t">>]]

ParsedB ==
  \* 'b.pdf', '.pdf'
  [success |-> TRUE, filename |-> <<"b", ".", "p", "d", "f">>, extension |-> <<".", "p",
      "d", "f">>,
   \* 'PDF Document'
   type |-> <<"P", "D", "F", " ", "D", "o", "c", "u", "m", "e", "n", "t">>,
       content |-> <<>>,
   summary |-> <<>>, keywords |-> <<>>,
   \* 'manual', 'guide', '/uploads/b.pdf'
   tags |-> <<<<"m", "a", "n", "u", "a", "l">>, <<"g", "u", "i", "d", "e">>>>,
       metadata |-> [size |-> 0, path |-> <<"/", "u", "p", "l", "o", "a", "d", "s", "/",
       "b", ".", "p", "d", "f">>]]

\* a parse result that never went through an upload handler: no tags key
ParsedC ==
  \* 'c.md'
  [success |-> TRUE, filename |-> <<"c", ".", "m", "d">>, extension |-> <<".", "m", "d">>,
   \* 'Markdown Document', 'gamma'
   type |-> <<"M", "a", "r", "k", "d", "o", "w", "n", " ", "D", "o", "c", "u", "m", "e",
       "n", "t">>, content |-> <<"g", "a", "m", "m", "a">>,
   \* 'gamma', 'gamma'
   summary |-> <<"g", "a", "m", "m", "a">>, keywords |-> <<<<"g", "a", "m", "m", "a">>>>,
   \* '/uploads/c.md'
   metadata |-> [size |-> 5, path |-> <<"/", "u", "p", "l", "o", "a", "d", "s", "/", "c",
       ".", "m", "d">>]]

\* 'Unsupported file type: .exe'
ParsedFailed == [success |-> FALSE, error |-> <<"U", "n", "s", "u", "p", "p", "o", "r",
    "t", "e", "d", " ", "f", "i", "l", "e", " ", "t", "y", "p", "e", ":", " ", ".", "e",
    "x", "e">>]

ParsedDocs == {ParsedA, ParsedB, ParsedC, ParsedFailed}

RequiredKeys == {"filename", "extension", "type", "content", "metadata"}

\* a plausible slip: the tags are not copied into the indexed document
BuildDocument_dropsTags(p, t) ==
  [filename |-> p.filename, extension |-> p.extension, type |-> p.type,
   content |-> p.content, summary |-> Get(p, "summary", <<>>),
   keywords |-> Get(p, "keywords", <<>>), tags |-> <<>>,
   metadata |-> Get(p, "metadata", <<>>), indexed_at |-> t,
   file_size |-> Get(p.metadata, "size", 0),
   file_path |-> Get(p.metadata, "path", <<>>)]

\* the body index_document sends
BuildDocument(p, t) ==
  [filename |-> p.filename, extension |-> p.extension, type |-> p.type,
   content |-> p.content, summary |-> Get(p, "summary", <<>>),
   keywords |-> Get(p, "keywords", <<>>), tags |-> Get(p, "tags", <<>>),
   metadata |-> Get(p, "metadata", <<>>), indexed_at |-> t,
   file_size |-> Get(p.metadata, "size", 0),
   file_path |-> Get(p.metadata, "path", <<>>)]

\* client.index(index, body, refresh=True): the document is stored under a fresh
\* id and is visible at once; a missing index or an unreachable backend raises
BackendIndex(ix, id, doc) ==
  [ix EXCEPT ![IndexName].docs =
     [i \in DOMAIN ix[IndexName].docs \cup {id} |->
        IF i = id THEN doc ELSE ix[IndexName].docs[i]]]

\* [indices, nextId, result] of index_document(p) at time t; fault: the backend raises
IndexDocumentRun(ix, id, p, t, fault) ==
  IF ~Get(p, "success", FALSE)
  THEN [indices |-> ix, nextId |-> id, sent |-> FALSE,
        \* 'Unknown error'
        result |-> [success |-> FALSE, error |-> Get(p, "error", <<"U", "n", "k", "n",
            "o", "w", "n", " ", "e", "r", "r", "o", "r">>)]]
  ELSE IF ~(RequiredKeys \subseteq DOMAIN p)
  THEN [indices |-> ix, nextId |-> id, sent |-> FALSE,
        \* 'KeyError'
        result |-> [success |-> FALSE, error |-> <<"K", "e", "y", "E", "r", "r", "o",
            "r">>]]
  ELSE IF fault \/ ~ix[IndexName].exists
  THEN [indices |-> ix, nextId |-> id, sent |-> TRUE,
        \* 'ConnectionError'
        result |-> [success |-> FALSE, error |-> <<"C", "o", "n", "n", "e", "c", "t", "i",
            "o", "n", "E", "r", "r", "o", "r">>]]
  ELSE [indices |-> BackendIndex(ix, id, BuildDocument(p, t)), nextId |-> id + 1,
        sent |-> TRUE,
        result |-> [success |-> TRUE, doc_id |-> id, filename |-> p.filename]]

\* index_document while the backend has handed out fewer than cap ids
IndexDocumentUpTo(p, fault, cap) ==
  /\ nextId <= cap
  /\ LET r == IndexDocumentRun(indices, nextId, p, clock, fault) IN
       /\ indices' = r.indices
       /\ nextId' = r.nextId
       /\ written' = IF r.result.success
                     THEN [i \in DOMAIN written \cup {nextId} |->
                             IF i = nextId THEN p ELSE written[i]]
                     ELSE written
       /\ lastOp' = [op |-> "index_document", result |-> r.result]
  /\ UNCHANGED <<mig, sq, rag, pcall, sql, fix>>
  /\ UNCHANGED upVars

IndexDocument(p, fault) == IndexDocumentUpTo(p, fault, MaxIds)

\* client.get raises NotFoundError for an unknown id or a missing index
GetDocumentRun(ix, id, fault) ==
  IF fault \/ ~ix[IndexName].exists \/ id \notin DOMAIN ix[IndexName].docs
  THEN NoneDoc
  ELSE [k \in DOMAIN ix[IndexName].docs[id] \cup {"id"} |->
          IF k = "id" THEN id ELSE ix[IndexName].docs[id][k]]

GetDocument(id, fault) ==
  /\ lastOp' = [op |-> "get_document", doc_id |-> id, fault |-> fault,
                result |-> GetDocumentRun(indices, id, fault)]
  /\ UNCHANGED <<indices, nextId, written, mig, sq, rag, pcall, sql, fix>>
  /\ UNCHANGED upVars

DeleteDocumentRun(ix, id, fault) ==
  IF fault \/ ~ix[IndexName].exists \/ id \notin DOMAIN ix[IndexName].docs
  THEN [indices |-> ix, result |-> FALSE]
  ELSE [indices |->
          [ix EXCEPT ![IndexName].docs =
             [i \in DOMAIN ix[IndexName].docs \ {id} |-> ix[IndexName].docs[i]]],
        result |-> TRUE]

DeleteDocument(id, fault) ==
  /\ LET r == DeleteDocumentRun(indices, id, fault) IN
       /\ indices' = r.indices
       /\ lastOp' = [op |-> "delete_document", doc_id |-> id, result |-> r.result]
  /\ UNCHANGED <<nextId, written, mig, sq, rag, pcall, sql, fix>>
  /\ UNCHANGED upVars

-----------------------------------------------------------------------------
(* update_index_mapping.py, main(): one action per backend request *)

\* held is history: the ids of the documents the index held when main() started
MigIdle ==
  [pc |-> "idle", before |-> 0, copied |-> 0, final |-> 0, after |-> 0,
   tempDiscarded |-> FALSE, compared |-> FALSE, outcome |-> "none", held |-> {}]

MigEnded == {"idle", "cancelled", "failed", "done"}

\* get_statistics: the count of the index, 0 when the backend raises
TotalDocuments(ix) == IF ix[IndexName].exists THEN Count(ix, IndexName) ELSE 0

\* client.reindex(source, dest): the documents in copy are written to dest under
\* their ids; the others are reported as failures and left out
BackendReindex(ix, src, dst, copy) ==
  [ix EXCEPT ![dst].docs =
     [i \in DOMAIN ix[dst].docs \cup copy |->
        IF i \in copy THEN ix[src].docs[i] ELSE ix[dst].docs[i]]]

\* lines 44-52: the statistics before the migration; nothing to do for an empty index
MigStart ==
  /\ mig.pc \in MigEnded
  /\ mig' = IF TotalDocuments(indices) = 0
            THEN [MigIdle EXCEPT !.pc = "cancelled"]
            ELSE [MigIdle EXCEPT !.pc = "create_temp",
                                 !.before = TotalDocuments(indices),
                                 !.held = DOMAIN indices[IndexName].docs]
  /\ UNCHANGED <<idxVars, sq, rag, pcall, sql, fix>>
  /\ UNCHANGED upVars

\* lines 95-99: a left-over temporary index is deleted, a new one created
MigCreateTemp ==
  /\ mig.pc = "create_temp"
  /\ indices' = [indices EXCEPT ![TempIndex] = NewIndex(MigrationMapping)]
  /\ mig' = [mig EXCEPT !.pc = "reindex_to_temp"]
  /\ UNCHANGED <<nextId, written, lastOp, sq, rag, pcall, sql, fix>>
  /\ UNCHANGED upVars

\* lines 105-112: copy documents -> documents_temp
MigReindexToTemp(copy) ==
  /\ mig.pc = "reindex_to_temp"
  /\ indices[IndexName].exists /\ indices[TempIndex].exists
  /\ copy \subseteq DOMAIN indices[IndexName].docs
  /\ indices' = BackendReindex(indices, IndexName, TempIndex, copy)
  /\ mig' = [mig EXCEPT !.pc = "delete_original", !.copied = Cardinality(copy)]
  /\ UNCHANGED <<nextId, written, lastOp, sq, rag, pcall, sql, fix>>
  /\ UNCHANGED upVars

\* line 117
MigDeleteOriginal ==
  /\ mig.pc = "delete_original"
  /\ indices[IndexName].exists
  /\ indices' = [indices EXCEPT ![IndexName] = NoIndex]
  /\ mig' = [mig EXCEPT !.pc = "create_original"]
  /\ UNCHANGED <<nextId, written, lastOp, sq, rag, pcall, sql, fix>>
  /\ UNCHANGED upVars

\* line 122
MigCreateOriginal ==
  /\ mig.pc = "create_original"
  /\ ~indices[IndexName].exists
  /\ indices' = [indices EXCEPT ![IndexName] = NewIndex(MigrationMapping)]
  /\ mig' = [mig EXCEPT !.pc = "reindex_back"]
  /\ UNCHANGED <<nextId, written, lastOp, sq, rag, pcall, sql, fix>>
  /\ UNCHANGED upVars

\* lines 128-134: copy documents_temp -> documents
MigReindexBack(copy) ==
  /\ mig.pc = "reindex_back"
  /\ indices[IndexName].exists /\ indices[TempIndex].exists
  /\ copy \subseteq DOMAIN indices[TempIndex].docs
  /\ indices' = BackendReindex(indices, TempIndex, IndexName, copy)
  /\ mig' = [mig EXCEPT !.pc = "delete_temp", !.final = Cardinality(copy)]
  /\ UNCHANGED <<nextId, written, lastOp, sq, rag, pcall, sql, fix>>
  /\ UNCHANGED upVars

\* line 139
MigDeleteTemp ==
  /\ mig.pc = "delete_temp"
  /\ indices[TempIndex].exists
  /\ indices' = [indices EXCEPT ![TempIndex] = NoIndex]
  /\ mig' = [mig EXCEPT !.pc = "verify", !.tempDiscarded = TRUE]
  /\ UNCHANGED <<nextId, written, lastOp, sq, rag, pcall, sql, fix>>
  /\ UNCHANGED upVars

\* lines 145-158: the count after the migration is compared with the one before
MigVerify ==
  /\ mig.pc = "verify"
  /\ mig' = [mig EXCEPT !.pc = "done", !.compared = TRUE,
                        !.after = TotalDocuments(indices),
                        !.outcome = IF TotalDocuments(indices) = mig.before
                                    THEN "success" ELSE "mismatch"]
  /\ UNCHANGED <<idxVars, sq, rag, pcall, sql, fix>>
  /\ UNCHANGED upVars

\* lines 160-163: the pending request raises; the script reports and exits 1
MigFail ==
  /\ mig.pc \in {"create_temp", "reindex_to_temp", "delete_original",
                 "create_original", "reindex_back", "delete_temp"}
  /\ mig' = [mig EXCEPT !.pc = "failed", !.outcome = "error"]
  /\ UNCHANGED <<idxVars, sq, rag, pcall, sql, fix>>
  /\ UNCHANGED upVars

Migration ==
  \/ MigStart
  \/ MigCreateTemp
  \/ \E copy \in SUBSET (1..MaxIds) : MigReindexToTemp(copy)
  \/ MigDeleteOriginal
  \/ MigCreateOriginal
  \/ \E copy \in SUBSET (1..MaxIds) : MigReindexBack(copy)
  \/ MigDeleteTemp
  \/ MigVerify
  \/ MigFail

-----------------------------------------------------------------------------
(* OpenSearchManager.search: the request it builds *)

\* a plausible slip: the query is compared without query.strip()
IsMatchAll_noStrip(q) == q = <<>> \/ q = <<"*">>

\* line 229: not query or query.strip() == '*'
IsMatchAll(q) == q = <<>> \/ StripStr(q) = <<"*">>

MultiMatchClause(q) ==
  [bool |->
     [should |->
        <<[multi_match |->
             [query |-> q,
              fields |-> <<"content^1", "filename^3", "summary^2",
                           "keywords^2", "tags^2">>,
              type |-> "best_fields", fuzziness |-> "AUTO"]]>>,
      minimum_should_match |-> 1]]

\* lines 229-253
RelevanceClause(q) ==
  IF IsMatchAll(q) THEN [match_all |-> EmptyRec] ELSE MultiMatchClause(q)

\* lines 257-259; filters is the sequence of the dict's (field, value) items
FilterClauses(filters) ==
  [i \in 1..Len(filters) |-> [term |-> [field |-> filters[i][1],
      value |-> filters[i][2]]]]

\* a plausible slip: the filters never reach the query
QueryClause_dropsFilters(q, filters) == RelevanceClause(q)

\* lines 256-267; a list in the request is written [list |-> <<...>>]
QueryClause(q, filters) ==
  IF filters = <<>> THEN RelevanceClause(q)
  ELSE [bool |->
          [must |-> IF IsMatchAll(q) THEN RelevanceClause(q)
                    ELSE [list |-> <<RelevanceClause(q)>>],
           filter |-> FilterClauses(filters)]]

FullHighlightFields ==
  [summary |-> [fragment_size |-> 200, number_of_fragments |-> 2],
   filename |-> EmptyRec,
   content |-> [fragment_size |-> 150, number_of_fragments |-> 3,
                no_match_size |-> 200]]

ReducedHighlightFields ==
  [summary |-> [fragment_size |-> 200, number_of_fragments |-> 2],
   filename |-> EmptyRec]

\* a plausible slip: the sort order is written 'asc'
SearchBody_oldestFirst(q, size, filters) ==
  [query |-> QueryClause(q, filters),
   highlight |-> [fields |-> FullHighlightFields,
                  pre_tags |-> <<"<mark>">>, post_tags |-> <<"</mark>">>,
                  require_field_match |-> FALSE],
   size |-> size,
   sort |-> <<[indexed_at |-> [order |-> "asc"]]>>]

\* lines 269-292
SearchBody(q, size, filters) ==
  [query |-> QueryClause(q, filters),
   highlight |-> [fields |-> FullHighlightFields,
                  pre_tags |-> <<"<mark>">>, post_tags |-> <<"</mark>">>,
                  require_field_match |-> FALSE],
   size |-> size,
   sort |-> <<[indexed_at |-> [order |-> "desc"]]>>]

\* a plausible slip: the retry asks for the same highlighting again
RetryBody_keepsContent(body) == body

\* lines 304-310: the same body with the content field taken out of the highlighting
RetryBody(body) ==
  [body EXCEPT !.highlight.fields = ReducedHighlightFields]

-----------------------------------------------------------------------------
(* The backend's answer to a search request *)

\* the analysed words of a text: split at blanks, lower-cased, punctuation dropped
IsWord(w) ==
  \E i \in DOMAIN w : w[i] \in Range(LowerCase) \cup Range(UpperCase) \cup Range(Digits)

QueryTerms(q) == {Lower(w) : w \in {v \in Range(Split(q, " ")) : IsWord(v)}}

\* multi_match over content, filename, summary (analysed text) and keywords, tags
\* (exact values)
MultiMatch(doc, mm) ==
  LET terms == QueryTerms(mm.query) IN
    \/ terms \cap QueryTerms(doc.content) # {}
    \/ terms \cap QueryTerms(doc.summary) # {}
    \/ Lower(doc.filename) \in terms
    \/ mm.query \in Range(doc.keywords)
    \/ mm.query \in Range(doc.tags)

\* term: the exact value is the field's value or one of its values
TermMatch(doc, term) ==
  IF term.field \in {"tags", "keywords"}
  THEN term.value \in Range(doc[term.field])
  ELSE term.field \in DOMAIN doc /\ doc[term.field] = term.value

RECURSIVE ClauseMatches(_, _)
ClauseMatches(doc, c) ==
  IF "match_all" \in DOMAIN c THEN TRUE
  ELSE IF "multi_match" \in DOMAIN c THEN MultiMatch(doc, c.multi_match)
  ELSE IF "term" \in DOMAIN c THEN TermMatch(doc, c.term)
  ELSE
    /\ "must" \in DOMAIN c.bool =>
         IF "list" \in DOMAIN c.bool.must
         THEN \A i \in DOMAIN c.bool.must.list :
                ClauseMatches(doc, c.bool.must.list[i])
         ELSE ClauseMatches(doc, c.bool.must)
    /\ "filter" \in DOMAIN c.bool =>
         \A i \in DOMAIN c.bool.filter : ClauseMatches(doc, c.bool.filter[i])
    /\ "should" \in DOMAIN c.bool =>
         Cardinality({i \in DOMAIN c.bool.should :
                        ClauseMatches(doc, c.bool.should[i])})
           >= c.bool.minimum_should_match

\* the words the highlighter marks: those of the query's full-text clauses
RECURSIVE ClauseTerms(_)
ClauseTerms(c) ==
  IF "match_all" \in DOMAIN c \/ "term" \in DOMAIN c THEN {}
  ELSE IF "multi_match" \in DOMAIN c THEN QueryTerms(c.multi_match.query)
  ELSE
    (IF "must" \in DOMAIN c.bool
     THEN IF "list" \in DOMAIN c.bool.must
          THEN UNION {ClauseTerms(c.bool.must.list[i]) : i \in DOMAIN c.bool.must.list}
          ELSE ClauseTerms(c.bool.must)
     ELSE {})
    \cup
    (IF "should" \in DOMAIN c.bool
     THEN UNION {ClauseTerms(c.bool.should[i]) : i \in DOMAIN c.bool.should}
     ELSE {})

\* the fragments of one highlighted field; content has no_match_size, so a document
\* with content gets an excerpt also when no word matches
Fragments(doc, f, cfg, terms) ==
  CASE f = "content" ->
         IF terms \cap QueryTerms(doc.content) # {}
         THEN <<[field |-> f, marked |-> TRUE, text |-> doc.content]>>
         ELSE IF "no_match_size" \in DOMAIN cfg /\ doc.content # <<>>
         THEN <<[field |-> f, marked |-> FALSE, text |-> doc.content]>>
         ELSE <<>>
    [] f = "summary" ->
         IF terms \cap QueryTerms(doc.summary) # {}
         THEN <<[field |-> f, marked |-> TRUE, text |-> doc.summary]>>
         ELSE <<>>
    [] OTHER ->
         IF Lower(doc.filename) \in terms
         THEN <<[field |-> f, marked |-> TRUE, text |-> doc.filename]>>
         ELSE <<>>

HitHighlight(doc, body) ==
  LET terms == ClauseTerms(body.query)
      fs == {f \in DOMAIN body.highlight.fields :
               Fragments(doc, f, body.highlight.fields[f], terms) # <<>>}
  IN  [f \in fs |-> Fragments(doc, f, body.highlight.fields[f], terms)]

\* _score of a hit of a request that sorts by a field: null
ScoreNone == -1

Hit(ix, id, body) ==
  LET hl == HitHighlight(ix[IndexName].docs[id], body) IN
    [k \in {"_id", "_source", "_score"}
           \cup (IF hl = EmptyRec THEN {} ELSE {"highlight"}) |->
       CASE k = "_id" -> id
         [] k = "_source" -> ix[IndexName].docs[id]
         [] k = "_score" -> ScoreNone
         [] OTHER -> hl]

\* sort: [{indexed_at: {order: desc}}]; equal stamps keep index order
RECURSIVE SortByIndexedAt(_, _)
SortByIndexedAt(docs, ids) ==
  IF ids = {} THEN <<>>
  ELSE LET first == CHOOSE i \in ids :
                      \A j \in ids :
                         \/ docs[i].indexed_at > docs[j].indexed_at
                         \/ docs[i].indexed_at = docs[j].indexed_at /\ i <= j
       IN  <<first>> \o SortByIndexedAt(docs, ids \ {first})

\* client.search(index, body) when the backend answers
BackendSearch(ix, body) ==
  LET docs == ix[IndexName].docs
      found == {i \in DOMAIN docs : ClauseMatches(docs[i], body.query)}
      newest_first == SortByIndexedAt(docs, found)
      order == IF body.sort = <<[indexed_at |-> [order |-> "desc"]]>>
               THEN newest_first
               ELSE [n \in DOMAIN newest_first |->
                       newest_first[Len(newest_first) + 1 - n]]
      page == SubSeq(order, 1, Min(body.size, Len(order)))
  IN  [total |-> Cardinality(found),
       hits |-> [n \in 1..Len(page) |-> Hit(ix, page[n], body)]]

-----------------------------------------------------------------------------
(* OpenSearchManager.search: requests, retry, result *)

\* what a backend request does: it answers, or it raises
Answered == [class |-> "ok", info |-> <<>>]
OffsetError == [class |-> "RequestError", info |->
  \* 'illegal_argument_exception: index.highlight.max_analyzed_offset exceeded'
  <<"i", "l", "l", "e", "g", "a", "l", "_", "a", "r", "g", "u", "m", "e", "n", "t", "_",
      "e", "x", "c", "e", "p", "t", "i", "o", "n", ":", " ", "i", "n", "d", "e", "x", ".",
      "h", "i", "g", "h", "l", "i", "g", "h", "t", ".", "m", "a", "x", "_", "a", "n", "a",
      "l", "y", "z", "e", "d", "_", "o", "f", "f", "s", "e", "t", " ", "e", "x", "c", "e",
      "e", "d", "e", "d">>]
\* 'parsing_exception'
QueryError == [class |-> "RequestError", info |-> <<"p", "a", "r", "s", "i", "n", "g",
    "_", "e", "x", "c", "e", "p", "t", "i", "o", "n">>]
\* 'timed out'
TransportError == [class |-> "ConnectionError", info |-> <<"t", "i", "m", "e", "d", " ",
    "o", "u", "t">>]
\* 'index_not_found_exception'
MissingError == [class |-> "NotFoundError", info |-> <<"i", "n", "d", "e", "x", "_", "n",
    "o", "t", "_", "f", "o", "u", "n", "d", "_", "e", "x", "c", "e", "p", "t", "i", "o",
    "n">>]
Outcomes == {Answered, OffsetError, QueryError, TransportError}

\* a request to a missing index raises whatever else would have happened
Outcome(ix, out) == IF ix[IndexName].exists THEN out ELSE MissingError

\* a plausible slip: every request error is retried
ShouldRetry_anyRequestError(e) == e.class = "RequestError"

\* lines 300-302: except RequestError, and 'max_analyzed_offset' in str(e)
ShouldRetry(e) ==
  \* 'max_analyzed_offset'
  e.class = "RequestError" /\ Contains(<<"m", "a", "x", "_", "a", "n", "a", "l", "y", "z",
      "e", "d", "_", "o", "f", "f", "s", "e", "t">>, e.info)

\* 1.0; scores are counted in ten-thousandths
DefaultScore == 10000

\* a plausible slip: a missing score counts as no relevance at all
ParseHit_zeroDefault(hit) ==
  LET source == hit._source
      hl == Get(hit, "highlight", EmptyRec)
      highlight_text ==
        IF "content" \in DOMAIN hl THEN [joined |-> hl.content]
        ELSE IF "summary" \in DOMAIN hl THEN hl.summary[1]
        ELSE [head300 |-> Get(source, "summary", <<>>)]
  IN  [id |-> hit._id, filename |-> source.filename, type |-> source.type,
       extension |-> source.extension,
       score |-> IF Get(hit, "_score", ScoreNone) = ScoreNone
                 THEN 0 ELSE hit._score,
       file_size |-> Get(source, "file_size", 0),
       summary |-> Get(source, "summary", <<>>),
       keywords |-> Get(source, "keywords", <<>>),
       tags |-> Get(source, "tags", <<>>),
       highlight |-> highlight_text,
       indexed_at |-> Get(source, "indexed_at", <<>>),
       file_path |-> Get(source, "file_path", <<>>)]

\* lines 321-349: one hit as a result record
ParseHit(hit) ==
  LET source == hit._source
      hl == Get(hit, "highlight", EmptyRec)
      highlight_text ==
        IF "content" \in DOMAIN hl THEN [joined |-> hl.content]
        ELSE IF "summary" \in DOMAIN hl THEN hl.summary[1]
        ELSE [head300 |-> Get(source, "summary", <<>>)]
  IN  [id |-> hit._id, filename |-> source.filename, type |-> source.type,
       extension |-> source.extension,
       score |-> IF Get(hit, "_score", ScoreNone) = ScoreNone
                 THEN DefaultScore ELSE hit._score,
       file_size |-> Get(source, "file_size", 0),
       summary |-> Get(source, "summary", <<>>),
       keywords |-> Get(source, "keywords", <<>>),
       tags |-> Get(source, "tags", <<>>),
       highlight |-> highlight_text,
       indexed_at |-> Get(source, "indexed_at", <<>>),
       file_path |-> Get(source, "file_path", <<>>)]

\* lines 294-316: [requests sent, the response or the exception that leaves the block]
SearchRequests(ix, body, out1, out2) ==
  LET o1 == Outcome(ix, out1)
      o2 == Outcome(ix, out2)
  IN  IF o1 = Answered
      THEN [requests |-> <<body>>, exc |-> Answered,
            response |-> BackendSearch(ix, body)]
      ELSE IF ShouldRetry(o1)
      THEN IF o2 = Answered
           THEN [requests |-> <<body, RetryBody(body)>>, exc |-> Answered,
                 response |-> BackendSearch(ix, RetryBody(body))]
           ELSE [requests |-> <<body, RetryBody(body)>>, exc |-> o2,
                 response |-> EmptyRec]
      ELSE [requests |-> <<body>>, exc |-> o1, response |-> EmptyRec]

\* lines 227-364: the whole call; every exception becomes a failure result
SearchRun(ix, q, size, filters, out1, out2) ==
  LET r == SearchRequests(ix, SearchBody(q, size, filters), out1, out2) IN
    [requests |-> r.requests,
     raised |-> FALSE,
     result |->
       IF r.exc = Answered
       THEN [success |-> TRUE, total |-> r.response.total,
             results |-> [n \in 1..Len(r.response.hits) |->
                            ParseHit(r.response.hits[n])],
             query |-> q]
       ELSE [success |-> FALSE, error |-> r.exc.info, results |-> <<>>]]

\* '', '*', ' * ', ' ', 'Alpha', 'manual', 'zzz'
Queries == {<<>>, <<"*">>, <<" ", "*", " ">>, <<" ">>, <<"A", "l", "p", "h", "a">>, <<"m",
    "a",
    "n", "u", "a", "l">>, <<"z", "z", "z">>}
Sizes == {1, 10}
\* 'manual', 'guide'
Filters == {<<>>, <<<<"tags", <<"m", "a", "n", "u", "a", "l">>>>>>,
            <<<<"tags", <<"g", "u", "i", "d", "e">>>>>>}

Search(q, size, filters, out1, out2) ==
  /\ sq.op = "none"
  /\ out2 # Answered => ShouldRetry(Outcome(indices, out1))
  /\ LET r == SearchRun(indices, q, size, filters, out1, out2) IN
       sq' = [op |-> "search", query |-> q, size |-> size, filters |-> filters,
              out1 |-> Outcome(indices, out1), out2 |-> Outcome(indices, out2),
              requests |-> r.requests, raised |-> r.raised, result |-> r.result]
  /\ UNCHANGED <<idxVars, mig, rag, pcall, sql, fix>>
  /\ UNCHANGED upVars

\* the caller has taken the result; the model follows one call at a time
SearchReturn ==
  /\ sq.op = "search"
  /\ sq' = [op |-> "none"]
  /\ UNCHANGED <<idxVars, mig, rag, pcall, sql, fix>>
  /\ UNCHANGED upVars

\* the clock moves on
Tick ==
  /\ clock < MaxClock
  /\ clock' = clock + 1
  /\ UNCHANGED <<idxVars, mig, sq, rag, pcall, sql, fix, disk, up, dirUp>>

-----------------------------------------------------------------------------
(* microservizi/api.py: upsert_data, insert_data and upload_csv over one table *)

MaxRows == 2      \* rows in the data of a request

None == "None"
NULL == "NULL"

\* the columns of the table; id is the column the requests name as primary key
Columns == {"id", "name"}

\* an existing key with a new value, an existing key alone, a new key with a
\* value, a new key alone, a row without the key column
RowOld == [id |-> "k1", name |-> "y"]
RowKeyOnly == [id |-> "k1"]
RowNew == [id |-> "k2", name |-> "x"]
RowNewKeyOnly == [id |-> "k2"]
RowNoKey == [name |-> "x"]

Rows == {RowOld, RowKeyOnly, RowNew, RowNewKeyOnly, RowNoKey}

DataLists == UNION {[1..n -> Rows] : n \in 0..MaxRows}

\* the data of the requests that run side by side
ConcurrentData == {<<RowNew>>, <<RowOld>>, <<RowNew, RowOld>>}

Requests == {1, 2}

ReqIdle ==
  [pc |-> "idle", via |-> "none", operation |-> "none", primary_key |-> None,
   data |-> <<>>, i |-> 0, exists |-> FALSE, connection |-> "none",
   rows_inserted |-> 0, rows_updated |-> 0, tx |-> <<>>, status_code |-> 0]

\* the table holds one row when the service starts
SqlInit ==
  [table |-> <<[id |-> "k1", name |-> "x"]>>, req |-> [r \in Requests |-> ReqIdle]]

\* INSERT INTO t (columns of row) VALUES (...): the other columns are NULL
Stored(row) == [c \in Columns |-> IF c \in DOMAIN row THEN row[c] ELSE NULL]

\* one statement of a transaction applied to the rows
Execute(table, st) ==
  IF st.kind = "insert" THEN Append(table, Stored(st.row))
  ELSE [n \in DOMAIN table |->
          IF table[n][st.key] = st.row[st.key]
          THEN [c \in Columns |-> IF c \in DOMAIN st.row THEN st.row[c] ELSE table[n][c]]
          ELSE table[n]]

\* the rows a connection sees: the committed ones and its own statements
RECURSIVE Visible(_, _)
Visible(table, tx) ==
  IF tx = <<>> THEN table ELSE Visible(Execute(table, Head(tx)), Tail(tx))

HasKey(table, key, value) == \E n \in DOMAIN table : table[n][key] = value

\* raise HTTPException(status_code): upload_csv catches every exception of the
\* handler it calls, its own included, and raises a 500 in its place (lines
\* 334-336); the open transaction is dropped with the connection
Raise(q, status_code) ==
  [q EXCEPT !.pc = "done", !.tx = <<>>,
            !.status_code = IF q.via = "upload_csv" THEN 500 ELSE status_code]

\* upsert_data, lines 219-235: the 400 for a missing primary_key, then the
\* connection; get_connection raises a 500 that the handler raises again
BeginUpsert(q, connects) ==
  IF q.primary_key = None THEN Raise(q, 400)
  ELSE IF ~connects THEN Raise([q EXCEPT !.connection = "failed"], 500)
  ELSE [q EXCEPT !.connection = "open", !.i = 1,
                 !.pc = IF q.data = <<>> THEN "commit" ELSE "check"]

\* insert_data, lines 121-131: the connection, then the columns of data[0]
BeginInsert(q, connects) ==
  IF ~connects THEN Raise([q EXCEPT !.connection = "failed"], 500)
  ELSE IF q.data = <<>> THEN Raise([q EXCEPT !.connection = "open"], 500)
  ELSE [q EXCEPT !.connection = "open", !.pc = "insert"]

Request(via, operation, primary_key, data) ==
  [ReqIdle EXCEPT !.via = via, !.operation = operation,
                  !.primary_key = primary_key, !.data = data]

\* POST /api/v1/upsert
UpsertData(r, data, primary_key, connects) ==
  /\ sql.req[r].pc = "idle"
  /\ sql' = [sql EXCEPT !.req[r] =
               BeginUpsert(Request("upsert", "upsert", primary_key, data), connects)]
  /\ UNCHANGED <<idxVars, mig, sq, rag, pcall, fix>>
  /\ UNCHANGED upVars

\* POST /api/v1/upload-csv, lines 298-327: the rows read from the file go to
\* insert_data or to upsert_data, any other operation raises a 400
UploadCsv(r, operation, primary_key, data, connects) ==
  /\ sql.req[r].pc = "idle"
  /\ LET q == Request("upload_csv", operation, primary_key, data) IN
       sql' = [sql EXCEPT !.req[r] =
                 IF operation = "insert" THEN BeginInsert(q, connects)
                 ELSE IF operation = "upsert" THEN BeginUpsert(q, connects)
                 ELSE Raise(q, 400)]
  /\ UNCHANGED <<idxVars, mig, sq, rag, pcall, fix>>
  /\ UNCHANGED upVars

\* lines 239-241: SELECT COUNT(*) ... WHERE [primary_key]=?; a row without the
\* key column raises KeyError
UpsertCheck(r) ==
  LET q == sql.req[r] IN
    /\ q.pc = "check"
    /\ sql' = [sql EXCEPT !.req[r] =
                 IF q.primary_key \notin DOMAIN q.data[q.i] THEN Raise(q, 500)
                 ELSE [q EXCEPT !.pc = "write",
                                !.exists = HasKey(Visible(sql.table, q.tx), q.primary_key,
                                                  q.data[q.i][q.primary_key])]]
    /\ UNCHANGED <<idxVars, mig, sq, rag, pcall, fix>>
    /\ UNCHANGED upVars

\* the loop goes on with the next row, or to the commit
NextRow(q) ==
  [q EXCEPT !.i = q.i + 1, !.pc = IF q.i = Len(q.data) THEN "commit" ELSE "check"]

\* lines 243-261: UPDATE ... SET <the other columns> WHERE [primary_key]=?, which
\* the database rejects when there is no other column, or INSERT, which a table
\* that declares the key unique rejects for a key it holds
UpsertWrite(r, unique) ==
  LET q == sql.req[r]
      row == q.data[q.i]
  IN
    /\ q.pc = "write"
    /\ sql' = [sql EXCEPT !.req[r] =
                 IF q.exists
                 THEN IF DOMAIN row \ {q.primary_key} = {} THEN Raise(q, 500)
                      ELSE NextRow([q EXCEPT
                             !.tx = Append(@, [kind |-> "update", key |-> q.primary_key,
                                               row |-> row]),
                             !.rows_updated = @ + 1])
                 ELSE IF unique /\ HasKey(sql.table, q.primary_key, row[q.primary_key])
                      THEN Raise(q, 500)
                      ELSE NextRow([q EXCEPT
                             !.tx = Append(@, [kind |-> "insert", row |-> row]),
                             !.rows_inserted = @ + 1])]
    /\ UNCHANGED <<idxVars, mig, sq, rag, pcall, fix>>
    /\ UNCHANGED upVars

\* the keys the statements of a transaction insert
InsertedKeys(tx, key) ==
  {tx[n].row[key] : n \in {m \in DOMAIN tx : tx[m].kind = "insert"}}

\* lines 263-275: commit, close, the counts go back with status 200; a table that
\* declares the key unique has rejected an insert of a key committed meanwhile
UpsertCommit(r, unique) ==
  LET q == sql.req[r] IN
    /\ q.pc = "commit"
    /\ IF unique /\ \E k \in InsertedKeys(q.tx, q.primary_key) :
                       HasKey(sql.table, q.primary_key, k)
       THEN sql' = [sql EXCEPT !.req[r] = Raise(q, 500)]
       ELSE sql' = [sql EXCEPT !.table = Visible(sql.table, q.tx),
                               !.req[r] = [q EXCEPT !.pc = "done", !.tx = <<>>,
                                                    !.connection = "closed",
                                                    !.status_code = 200]]
    /\ UNCHANGED <<idxVars, mig, sq, rag, pcall, fix>>
    /\ UNCHANGED upVars

\* insert_data, lines 131-155: every row is inserted with the columns of data[0]
\* (KeyError for a row without one of them), then the commit
InsertRows(r, unique) ==
  LET q == sql.req[r]
      columns == DOMAIN q.data[1]
      rows == [n \in DOMAIN q.data |-> [c \in columns |-> q.data[n][c]]]
      keys == {q.data[n]["id"] : n \in DOMAIN q.data}
  IN
    /\ q.pc = "insert"
    /\ IF \E n \in DOMAIN q.data : ~(columns \subseteq DOMAIN q.data[n])
       THEN sql' = [sql EXCEPT !.req[r] = Raise(q, 500)]
       ELSE IF unique /\ ("id" \notin columns
                            \/ Cardinality(keys) < Len(q.data)
                            \/ \E k \in keys : HasKey(sql.table, "id", k))
       THEN sql' = [sql EXCEPT !.req[r] = Raise(q, 500)]
       ELSE sql' = [sql EXCEPT
                      !.table = sql.table \o [n \in DOMAIN rows |-> Stored(rows[n])],
                      !.req[r] = [q EXCEPT !.pc = "done", !.connection = "closed",
                                           !.rows_inserted = Len(q.data),
                                           !.status_code = 200]]
    /\ UNCHANGED <<idxVars, mig, sq, rag, pcall, fix>>
    /\ UNCHANGED upVars

-----------------------------------------------------------------------------
(* fix_index_highlighting.py, main(): one action per backend request *)

\* closed: the documents index is closed; hasClosed: this run has closed it;
\* openRefused: an open request of this run has raised
FixIdle == [pc |-> "idle", closed |-> FALSE, hasClosed |-> FALSE, openRefused |-> FALSE]

\* what a backend request does: it answers, it raises RequestError, or it raises
\* another exception
FixOutcomes == {"ok", "RequestError", "error"}

\* lines 69-83: except RequestError prints advice and main() ends; except
\* Exception goes on to open the index again
FixRaised(f, out) ==
  IF out = "RequestError" THEN [f EXCEPT !.pc = "done"] ELSE [f EXCEPT !.pc = "reopen"]

\* lines 33-38: nothing is done for a missing index
FixStart(out) ==
  /\ fix.pc \in {"idle", "done"}
  /\ LET f == [fix EXCEPT !.hasClosed = FALSE, !.openRefused = FALSE] IN
       fix' = IF out # "ok" THEN FixRaised(f, out)
              ELSE IF ~indices[IndexName].exists THEN [f EXCEPT !.pc = "done"]
              ELSE [f EXCEPT !.pc = "close"]
  /\ UNCHANGED <<idxVars, mig, sq, rag, pcall, sql>>
  /\ UNCHANGED upVars

\* line 42: client.indices.close
FixClose(out) ==
  /\ fix.pc = "close"
  /\ fix' = IF out # "ok" THEN FixRaised(fix, out)
            ELSE [fix EXCEPT !.pc = "put_settings", !.closed = TRUE, !.hasClosed = TRUE]
  /\ UNCHANGED <<idxVars, mig, sq, rag, pcall, sql>>
  /\ UNCHANGED upVars

\* lines 46-55: client.indices.put_settings with highlight.max_analyzed_offset
FixPutSettings(out) ==
  /\ fix.pc = "put_settings"
  /\ fix' = IF out # "ok" THEN FixRaised(fix, out) ELSE [fix EXCEPT !.pc = "open"]
  /\ indices' = IF out = "ok" /\ indices[IndexName].exists
                THEN [indices EXCEPT ![IndexName].max_analyzed_offset = HighlightLimit]
                ELSE indices
  /\ UNCHANGED <<nextId, written, lastOp, mig, sq, rag, pcall, sql>>
  /\ UNCHANGED upVars

\* line 59: client.indices.open
FixOpen(out) ==
  /\ fix.pc = "open"
  /\ fix' = IF out # "ok" THEN FixRaised([fix EXCEPT !.openRefused = TRUE], out)
            ELSE [fix EXCEPT !.pc = "get_settings", !.closed = FALSE]
  /\ UNCHANGED <<idxVars, mig, sq, rag, pcall, sql>>
  /\ UNCHANGED upVars

\* lines 62-67: the settings are read back and printed
FixGetSettings(out) ==
  /\ fix.pc = "get_settings"
  /\ fix' = IF out # "ok" THEN FixRaised(fix, out) ELSE [fix EXCEPT !.pc = "done"]
  /\ UNCHANGED <<idxVars, mig, sq, rag, pcall, sql>>
  /\ UNCHANGED upVars

\* lines 79-83: the index is opened again; an exception of the request is dropped
FixReopen(out) ==
  /\ fix.pc = "reopen"
  /\ fix' = IF out # "ok" THEN [fix EXCEPT !.pc = "done", !.openRefused = TRUE]
            ELSE [fix EXCEPT !.pc = "done", !.closed = FALSE]
  /\ UNCHANGED <<idxVars, mig, sq, rag, pcall, sql>>
  /\ UNCHANGED upVars

FixIndexHighlighting ==
  \E out \in FixOutcomes :
    \/ FixStart(out)
    \/ FixClose(out)
    \/ FixPutSettings(out)
    \/ FixOpen(out)
    \/ FixGetSettings(out)
    \/ FixReopen(out)


-----------------------------------------------------------------------------
(* The index manager and the migration script over one backend *)

\* app.py creates the index at start-up
IdxInit ==
  /\ indices = [n \in IndexNames |->
                  IF n = IndexName THEN NewIndex(ManagerMapping) ELSE NoIndex]
  /\ nextId = 1
  /\ written = EmptyDocs
  /\ lastOp = [op |-> "none"]
  /\ mig = MigIdle

OtherIdle ==
  /\ sq = [op |-> "none"]
  /\ rag = [op |-> "none"]
  /\ disk = EmptyDocs
  /\ clock = 0
  /\ up = EmptyDocs
  /\ dirUp = [op |-> "none"]
  /\ pcall = [op |-> "none"]
  /\ sql = SqlInit
  /\ fix = FixIdle

Init == IdxInit /\ OtherIdle

Next ==
  \/ \E force \in BOOLEAN, failAt \in 0..4 : CreateIndex(force, failAt)
  \/ \E p \in ParsedDocs, fault \in BOOLEAN : IndexDocument(p, fault)
  \/ \E id \in 1..MaxIds, fault \in BOOLEAN : GetDocument(id, fault)
  \/ \E id \in 1..MaxIds, fault \in BOOLEAN : DeleteDocument(id, fault)

Spec == Init /\ [][Next]_vars

\* the migration script run beside the manager's index creation and writes
NextMig ==
  \/ \E force \in BOOLEAN, failAt \in 0..4 : CreateIndex(force, failAt)
  \/ \E p \in ParsedDocs, fault \in BOOLEAN : IndexDocument(p, fault)
  \/ Migration

SpecMig == Init /\ [][NextMig]_vars

-----------------------------------------------------------------------------
(* Claims about the index manager and the migration script *)

\* C4: create_index(force=False) on an existing index sends only the existence
\* request (no create, delete or settings request) and leaves the index, its
\* schema and its documents as they were.
C4_CreateIndexIdempotent ==
  [][(lastOp'.op = "create_index" /\ ~lastOp'.force /\ lastOp'.existed)
       => /\ indices' = indices
          /\ \A i \in 1..Len(lastOp'.calls) : lastOp'.calls[i] = "exists"]_vars

C4_Witness ==
  /\ lastOp.op = "create_index" /\ ~lastOp.force /\ lastOp.existed
  /\ lastOp.calls = <<"exists">>
  /\ Count(indices, IndexName) > 0

\* C5: when create_index(force=True) on an existing index returns, the index was
\* deleted and created again: it exists with the manager's schema and is empty.
C5_ForceRecreates ==
  (lastOp.op = "create_index" /\ lastOp.force /\ lastOp.existed /\ ~lastOp.raised)
    => /\ lastOp.calls = <<"exists", "delete", "exists", "create">>
       /\ indices[IndexName] = NewIndex(ManagerMapping)
       /\ indices[IndexName].docs = EmptyDocs

C5_Witness ==
  /\ lastOp.op = "create_index" /\ lastOp.force /\ lastOp.existed /\ ~lastOp.raised
  /\ lastOp.hadDocs

\* C6: get_document with the id a successful index_document returned yields the
\* stored record as long as the document is in the index and the backend answers,
\* and the record's filename, tags and keywords are those of the written document.
C6_RoundTrip ==
  lastOp.op = "get_document" =>
    /\ (/\ ~lastOp.fault
        /\ indices[IndexName].exists
        /\ lastOp.doc_id \in DOMAIN indices[IndexName].docs)
         => lastOp.result # NoneDoc
    /\ lastOp.result # NoneDoc =>
         /\ lastOp.doc_id \in DOMAIN written
         /\ lastOp.result.id = lastOp.doc_id
         /\ lastOp.result.filename = written[lastOp.doc_id].filename
         /\ lastOp.result.tags = Get(written[lastOp.doc_id], "tags", <<>>)
         /\ lastOp.result.keywords = Get(written[lastOp.doc_id], "keywords", <<>>)

C6_Witness ==
  /\ lastOp.op = "get_document"
  /\ lastOp.result # NoneDoc
  \* 'manual'
  /\ lastOp.result.tags = <<<<"m", "a", "n", "u", "a", "l">>>>
  \* 'alpha', 'beta'
  /\ lastOp.result.keywords = <<<<"a", "l", "p", "h", "a">>, <<"b", "e", "t", "a">>>>

\* C7: the migration compares the document count of the rebuilt index with the
\* count recorded at the start before it deletes the temporary index.
C7_CountComparedBeforeTempDeleted ==
  mig.tempDiscarded => mig.compared

\* C8: whenever the documents index exists, its highlighting-analysis size limit
\* is above the backend default.
C8_HighlightLimitRaised ==
  indices[IndexName].exists =>
    indices[IndexName].max_analyzed_offset > DefaultHighlightLimit

\* the index exists and holds the documents ids
Holds(ix, name, ids) == ix[name].exists /\ ids \subseteq DOMAIN ix[name].docs

HeldByOne(ix, ids) == Holds(ix, IndexName, ids) \/ Holds(ix, TempIndex, ids)

-----------------------------------------------------------------------------
(* Searching an index that uploads fill *)

NextSearch ==
  \/ \E p \in {ParsedA, ParsedB} : IndexDocument(p, FALSE)
  \/ CreateIndex(TRUE, 3)
  \/ Tick
  \/ \E q \in Queries, size \in Sizes, filters \in Filters, out1, out2 \in Outcomes :
       Search(q, size, filters, out1, out2)
  \/ SearchReturn

SpecSearch == Init /\ [][NextSearch]_vars

-----------------------------------------------------------------------------
(* Claims about search *)

SearchFailed ==
  \/ sq.out1 \notin {Answered, OffsetError}
  \/ sq.out1 = OffsetError /\ sq.out2 # Answered

RetriedWithoutContent(s, ix) ==
  /\ Len(s.requests) = 2
  /\ "content" \in DOMAIN s.requests[1].highlight.fields
  /\ s.requests[2].query = s.requests[1].query
  /\ s.requests[2].size = s.requests[1].size
  /\ s.requests[2].sort = s.requests[1].sort
  /\ DOMAIN s.requests[2].highlight.fields = {"summary", "filename"}
  /\ s.out2 = Answered =>
       /\ s.result.success
       /\ "error" \notin DOMAIN s.result
       /\ s.result.total =
            Cardinality({i \in DOMAIN ix[IndexName].docs :
               ClauseMatches(ix[IndexName].docs[i], s.requests[1].query)})
       /\ Len(s.result.results) = Min(s.size, s.result.total)
       /\ \A n \in DOMAIN s.result.results :
            /\ s.result.results[n].id \in DOMAIN ix[IndexName].docs
            /\ "joined" \notin DOMAIN s.result.results[n].highlight

\* C1: a request error naming max_analyzed_offset makes search send the request
\* again with the same query clause, size and sort and with summary and filename
\* highlighting only; when that request is answered the call returns a success
\* with the index's matching hits, none of them carrying a content highlight.
C1_RetryWithoutContentHighlight ==
  [][(sq.op = "none" /\ sq'.op = "search" /\ sq'.out1 = OffsetError)
       => RetriedWithoutContent(sq', indices)]_vars

C1_Witness ==
  /\ sq.op = "search" /\ sq.out1 = OffsetError /\ sq.out2 = Answered
  /\ sq.result.success
  /\ \E n \in DOMAIN sq.result.results :
       /\ "marked" \in DOMAIN sq.result.results[n].highlight
       /\ sq.result.results[n].highlight.field = "summary"

\* C2: one call of search sends one or two requests, two exactly when the first
\* failed on the highlighting limit; when the retry fails too, or the first
\* failure is another error, the call returns a failure result (success false,
\* no results, the error's message) and raises nothing.
C2_AtMostOneRetry ==
  sq.op = "search" =>
    /\ Len(sq.requests) \in {1, 2}
    /\ Len(sq.requests) = 2 <=> sq.out1 = OffsetError
    /\ ~sq.raised
    /\ SearchFailed =>
         /\ ~sq.result.success
         /\ sq.result.results = <<>>
         /\ sq.result.error =
              (IF sq.out1 = OffsetError THEN sq.out2.info ELSE sq.out1.info)
    /\ ~SearchFailed => sq.result.success

C2_Witness ==
  /\ sq.op = "search" /\ sq.out1 = OffsetError /\ sq.out2 = OffsetError
  /\ Len(sq.requests) = 2
  /\ ~sq.result.success


-----------------------------------------------------------------------------
(* RAGEngine: the rule-based answer *)

\* sep.join(parts)
RECURSIVE Join(_, _)
Join(sep, parts) ==
  IF parts = <<>> THEN <<>>
  ELSE IF Len(parts) = 1 THEN parts[1]
  ELSE parts[1] \o sep \o Join(sep, Tail(parts))

\* s[:n]
Take(s, n) == SubSeq(s, 1, Min(n, Len(s)))

\* str(n) of a natural number
RECURSIVE IntToStr(_)
IntToStr(n) ==
  IF n < 10 THEN <<Digits[n + 1]>>
  ELSE IntToStr(n \div 10) \o <<Digits[(n % 10) + 1]>>

\* round(x, 2) of the fraction num / den, counted in hundredths; the inputs of the
\* model stay off the exact halves, where the result depends on the binary digits
RoundHundredths(num, den) ==
  LET q == (100 * num) \div den
      r == (100 * num) % den
  IN  IF 2 * r < den THEN q
      ELSE IF 2 * r > den THEN q + 1
      ELSE IF q % 2 = 0 THEN q ELSE q + 1

\* any(word in s for word in words)
AnyIn(words, s) == \E i \in DOMAIN words : Contains(words[i], s)

\* lines 194-209
DetectQuestionType(query) ==
  LET query_lower == Lower(query) IN
    \* 'come'
    IF AnyIn(<<<<"c", "o", "m", "e">>, <<"h", "o", "w">>>>, query_lower) THEN "how"
    \* 'cosa', 'che cosa', 'what'
    ELSE IF AnyIn(<<<<"c", "o", "s", "a">>, <<"c", "h", "e", " ", "c", "o", "s", "a">>,
        <<"w", "h", "a", "t">>>>, query_lower) THEN "what"
    \* 'dove', 'where'
    ELSE IF AnyIn(<<<<"d", "o", "v", "e">>, <<"w", "h", "e", "r", "e">>>>,
        query_lower) THEN "where"
    \* 'perché'
    ELSE IF AnyIn(<<<<"p", "e", "r", "c", "h", "é">>, <<"w", "h", "y">>>>,
        query_lower) THEN "why"
    \* 'quando', 'when'
    ELSE IF AnyIn(<<<<"q", "u", "a", "n", "d", "o">>, <<"w", "h", "e", "n">>>>,
        query_lower) THEN "when"
    ELSE "general"

\* all_keywords: the keywords of the results, in order
RECURSIVE AllKeywords(_)
AllKeywords(results) ==
  IF results = <<>> THEN <<>>
  ELSE Get(Head(results), "keywords", <<>>) \o AllKeywords(Tail(results))

\* the keys of a dict filled in the order of s: first occurrences, in order
RECURSIVE FirstSeen(_)
FirstSeen(s) ==
  IF s = <<>> THEN <<>>
  ELSE LET init == FirstSeen(SubSeq(s, 1, Len(s) - 1)) IN
         IF s[Len(s)] \in Range(init) THEN init ELSE Append(init, s[Len(s)])

CountOf(k, s) == Cardinality({i \in DOMAIN s : s[i] = k})

\* sorted(keyword_freq.items(), key=count, reverse=True): a stable sort, equal
\* counts keep the order of first occurrence
RECURSIVE SortByCount(_, _)
SortByCount(keys, s) ==
  IF keys = <<>> THEN <<>>
  ELSE LET i == CHOOSE i \in DOMAIN keys :
                  /\ \A j \in DOMAIN keys : CountOf(keys[j], s) <= CountOf(keys[i], s)
                  /\ \A j \in 1..(i - 1) : CountOf(keys[j], s) < CountOf(keys[i], s)
       IN  <<keys[i]>>
             \o SortByCount(SubSeq(keys, 1, i - 1) \o SubSeq(keys, i + 1, Len(keys)), s)

\* a plausible slip: the sorted keywords are not cut at n
TopKeywords_uncut(results, n) ==
  LET all_keywords == AllKeywords(results) IN
    SortByCount(FirstSeen(all_keywords), all_keywords)

\* sorted(keyword_freq.items(), key=count, reverse=True)[:n] over the keywords of
\* results
TopKeywords(results, n) ==
  LET all_keywords == AllKeywords(results) IN
    Take(SortByCount(FirstSeen(all_keywords), all_keywords), n)

Filenames(results) == [i \in DOMAIN results |-> results[i].filename]

Types(results) == [i \in DOMAIN results |-> results[i].type]

\* lines 211-258
GenerateExplorationFlow(results, question_type) ==
  IF results = <<>> THEN <<>>
  ELSE
    \* '1. {U+1F4D6} Inizia con: '
    LET step1 == <<<<"1", ".", " ", "U+1F4D6", " ", "I", "n", "i", "z", "i", "a", " ",
        "c", "o", "n", ":", " ">> \o results[1].filename>>
        related_docs == Filenames(SubSeq(results, 2, Min(3, Len(results))))
        step2 == IF Len(results) > 1 /\ related_docs # <<>>
                 \* '2. {U+1F517} Approfondisci con: '
                 THEN <<<<"2", ".", " ", "U+1F517", " ", "A", "p", "p", "r", "o", "f",
                     "o", "n", "d", "i", "s", "c", "i", " ", "c", "o", "n", ":",
                     " ">> \o Join(<<",", " ">>, related_docs)>>
                 ELSE <<>>
        top_keywords == TopKeywords(Take(results, 3), 3)
        step3 == IF top_keywords # <<>>
                 \* '3. {U+1F3AF} Esplora i concetti: '
                 THEN <<<<"3", ".", " ", "U+1F3AF", " ", "E", "s", "p", "l", "o", "r",
                     "a", " ", "i", " ", "c", "o", "n", "c", "e", "t", "t", "i", ":",
                     " ">> \o Join(<<",", " ">>, top_keywords)>>
                 ELSE <<>>
        doc_types == FirstSeen(Types(results))
        step4 == IF Len(doc_types) > 1
                 \* '4. {U+1F4D1} Consulta anche: '
                 THEN <<<<"4", ".", " ", "U+1F4D1", " ", "C", "o", "n", "s", "u", "l",
                     "t", "a", " ", "a", "n", "c", "h", "e", ":", " ">> \o Join(<<",",
                     " ">>, doc_types)>>
                 ELSE <<>>
    IN  step1 \o step2 \o step3 \o step4

\* the elements of a Python set in the order the process iterates them; order lists
\* the values in the order their hashes give in this process
SetOrder(S, order) == SelectSeq(order, LAMBDA t : t \in S)

\* a plausible slip: the keyword is compared with the query as it is written
GenerateSuggestions_caseSensitive(query, results, order) ==
  LET top_keywords == TopKeywords(Take(results, 5), 5)
      wanted == SelectSeq(Take(top_keywords, 3), LAMBDA kw : ~Contains(kw, query))
      byKeyword == [i \in DOMAIN wanted |-> <<"C", "e", "r", "c", "a", " ", "a", "n", "c",
          "h", "e", ":", " ">> \o wanted[i]]
      doc_types == SetOrder(Range(Types(results)), order)
      repeated == SelectSeq(doc_types, LAMBDA t : CountOf(t, Types(results)) > 1)
      byType == [i \in DOMAIN repeated |-> <<"F", "i", "l", "t", "r", "a", " ", "p", "e",
          "r", ":", " ">> \o repeated[i]]
  IN  Take(byKeyword \o byType, 5)

\* a plausible slip: the keywords found in the query are dropped before the cut
\* at three, so the next most frequent keyword takes the free place
GenerateSuggestions_refills(query, results, order) ==
  LET top_keywords == TopKeywords(Take(results, 5), 5)
      wanted == Take(SelectSeq(top_keywords,
                               LAMBDA kw : ~Contains(Lower(kw), Lower(query))), 3)
      byKeyword == [i \in DOMAIN wanted |-> <<"C", "e", "r", "c", "a", " ", "a", "n", "c",
          "h", "e", ":", " ">> \o wanted[i]]
      doc_types == SetOrder(Range(Types(results)), order)
      repeated == SelectSeq(doc_types, LAMBDA t : CountOf(t, Types(results)) > 1)
      byType == [i \in DOMAIN repeated |-> <<"F", "i", "l", "t", "r", "a", " ", "p", "e",
          "r", ":", " ">> \o repeated[i]]
  IN  Take(byKeyword \o byType, 5)

\* lines 260-286
GenerateSuggestions(query, results, order) ==
  LET top_keywords == TopKeywords(Take(results, 5), 5)
      wanted == SelectSeq(Take(top_keywords, 3),
                          LAMBDA kw : ~Contains(Lower(kw), Lower(query)))
      \* 'Cerca anche: '
      byKeyword == [i \in DOMAIN wanted |-> <<"C", "e", "r", "c", "a", " ", "a", "n", "c",
          "h", "e", ":", " ">> \o wanted[i]]
      doc_types == SetOrder(Range(Types(results)), order)
      repeated == SelectSeq(doc_types, LAMBDA t : CountOf(t, Types(results)) > 1)
      \* 'Filtra per: '
      byType == [i \in DOMAIN repeated |-> <<"F", "i", "l", "t", "r", "a", " ", "p", "e",
          "r", ":", " ">> \o repeated[i]]
  IN  Take(byKeyword \o byType, 5)

\* lines 288-300; scores come in ten-thousandths and leave in hundredths
ExtractSources(results) ==
  [i \in DOMAIN results |->
     [filename |-> results[i].filename, type |-> results[i].type,
      score |-> RoundHundredths(results[i].score, 10000),
      path |-> Get(results[i], "file_path", <<>>)]]

\* a plausible slip: neither step is capped at 1.0
CalculateConfidence_uncapped(results) ==
  IF results = <<>> THEN 0
  ELSE IF Len(results) >= 3 THEN RoundHundredths(6 * results[1].score, 1000000)
  ELSE RoundHundredths(results[1].score, 200000)

\* a plausible slip: the boost is given from two results on
CalculateConfidence_boostsTwo(results) ==
  IF results = <<>> THEN 0
  ELSE IF Len(results) >= 2
  THEN RoundHundredths(Min(6 * Min(results[1].score, 200000), 1000000), 1000000)
  ELSE RoundHundredths(Min(results[1].score, 200000), 200000)

\* lines 302-317, in hundredths
CalculateConfidence(results) ==
  IF results = <<>> THEN 0
  ELSE
    LET top_score == results[1].score
        \* min(top_score / 20.0, 1.0) as the fraction num / den
        num == Min(top_score, 200000)
        den == 200000
        \* min(confidence * 1.2, 1.0) as the fraction bnum / bden
        boosted == Len(results) >= 3
        bnum == IF boosted THEN Min(6 * num, 5 * den) ELSE num
        bden == IF boosted THEN 5 * den ELSE den
    IN  RoundHundredths(bnum, bden)

\* lines 127-176
GenerateRuleBasedAnswer(query, results, order) ==
  LET question_type == DetectQuestionType(Lower(query))
      n == IntToStr(Len(results))
      opening ==
        CASE question_type = "how" ->
               \* 'Per quanto riguarda '', '', ho trovato '
               <<"P", "e", "r", " ", "q", "u", "a", "n", "t", "o", " ", "r", "i", "g",
                   "u", "a", "r", "d", "a", " ", "'">> \o query \o <<"'", ",", " ", "h",
                   "o", " ", "t", "r", "o", "v", "a", "t", "o", " ">> \o n
                 \* ' documenti rilevanti.'
                 \o <<" ", "d", "o", "c", "u", "m", "e", "n", "t", "i", " ", "r", "i",
                     "l", "e", "v", "a", "n", "t", "i", ".">>
          [] question_type = "what" ->
               \* 'Riguardo a '', '', ecco cosa ho trovato:'
               <<"R", "i", "g", "u", "a", "r", "d", "o", " ", "a", " ",
                   "'">> \o query \o <<"'", ",", " ", "e", "c", "c", "o", " ", "c", "o",
                   "s", "a", " ", "h", "o", " ", "t", "r", "o", "v", "a", "t", "o", ":">>
          [] question_type = "where" ->
               \* 'La risposta a '', '' si trova in questi documenti:'
               <<"L", "a", " ", "r", "i", "s", "p", "o", "s", "t", "a", " ", "a", " ",
                   "'">> \o query \o <<"'", " ", "s", "i", " ", "t", "r", "o", "v", "a",
                   " ", "i", "n", " ", "q", "u", "e", "s", "t", "i", " ", "d", "o", "c",
                   "u", "m", "e", "n", "t", "i", ":">>
          [] OTHER ->
               \* 'Ho trovato '
               <<"H", "o", " ", "t", "r", "o", "v", "a", "t", "o", " ">> \o n
                 \* ' documenti che potrebbero rispondere alla tua domanda.'
                 \o <<" ", "d", "o", "c", "u", "m", "e", "n", "t", "i", " ", "c", "h",
                     "e", " ", "p", "o", "t", "r", "e", "b", "b", "e", "r", "o", " ", "r",
                     "i", "s", "p", "o", "n", "d", "e", "r", "e", " ", "a", "l", "l", "a",
                     " ", "t", "u", "a", " ", "d", "o", "m", "a", "n", "d", "a", ".">>
      top_result == results[1]
      \* '\n\n{U+1F4C4} **Documento principale**: '
      main == <<"\n", "\n", "U+1F4C4", " ", "*", "*", "D", "o", "c", "u", "m", "e", "n",
          "t", "o", " ", "p", "r", "i", "n", "c", "i", "p", "a", "l", "e", "*", "*", ":",
          " ">> \o top_result.filename
      excerpt ==
        IF Get(top_result, "highlight", <<>>) # <<>>
        THEN <<NL>> \o top_result.highlight
        ELSE IF Get(top_result, "summary", <<>>) # <<>>
        THEN <<NL>> \o Take(top_result.summary, 300) \o <<".", ".", ".">>
        ELSE <<>>
      concepts ==
        IF Get(top_result, "keywords", <<>>) # <<>>
        \* '\n\n{U+1F511} **Concetti chiave**: '
        THEN <<"\n", "\n", "U+1F511", " ", "*", "*", "C", "o", "n", "c", "e", "t", "t",
            "i", " ", "c", "h", "i", "a", "v", "e", "*", "*", ":", " ">>
               \o Join(<<",", " ">>, Take(top_result.keywords, 5))
        ELSE <<>>
  IN  [answer |-> opening \o (IF results # <<>> THEN main \o excerpt \o concepts
                              ELSE <<>>),
       confidence |-> CalculateConfidence(results),
       sources |-> ExtractSources(Take(results, 3)),
       flow |-> GenerateExplorationFlow(results, question_type),
       suggestions |-> GenerateSuggestions(query, results, order)]

\* lines 178-192
GenerateNoResultsResponse(query) ==
  \* '{U+1F615} Non ho trovato documenti per ''
  [answer |-> <<"U+1F615", " ", "N", "o", "n", " ", "h", "o", " ", "t", "r", "o", "v",
      "a", "t", "o", " ", "d", "o", "c", "u", "m", "e", "n", "t", "i", " ", "p", "e", "r",
      " ", "'">> \o query
                \* ''.\n\nProva a riformulare la ricerca o usa termini diversi.'
                \o <<"'", ".", "\n", "\n", "P", "r", "o", "v", "a", " ", "a", " ", "r",
                    "i", "f", "o", "r", "m", "u", "l", "a", "r", "e", " ", "l", "a", " ",
                    "r", "i", "c", "e", "r", "c", "a", " ", "o", " ", "u", "s", "a", " ",
                    "t", "e", "r", "m", "i", "n", "i", " ", "d", "i", "v", "e", "r", "s",
                    "i", ".">>,
   confidence |-> 0,
   sources |-> <<>>,
   flow |-> <<>>,
   \* 'Prova a cercare con termini più generici'
   suggestions |-> <<<<"P", "r", "o", "v", "a", " ", "a", " ", "c", "e", "r", "c", "a",
       "r", "e", " ", "c", "o", "n", " ", "t", "e", "r", "m", "i", "n", "i", " ", "p",
       "i", "ù", " ", "g", "e", "n", "e", "r", "i", "c", "i">>,
                     \* 'Verifica l'ortografia di ''
                     <<"V", "e", "r", "i", "f", "i", "c", "a", " ", "l", "'", "o", "r",
                         "t", "o", "g", "r", "a", "f", "i", "a", " ", "d", "i", " ",
                         "'">> \o query \o <<"'">>,
                     \* 'Cerca parole chiave singole invece di frasi complete'
                     <<"C", "e", "r", "c", "a", " ", "p", "a", "r", "o", "l", "e", " ",
                         "c", "h", "i", "a", "v", "e", " ", "s", "i", "n", "g", "o", "l",
                         "e", " ", "i", "n", "v", "e", "c", "e", " ", "d", "i", " ", "f",
                         "r", "a", "s", "i", " ", "c", "o", "m", "p", "l", "e", "t",
                         "e">>>>]

-----------------------------------------------------------------------------
(* RAGEngine: the generative answer and generate_answer *)

\* lines 29-47: the engine after construction; available says whether the OpenAI
\* client could be imported and built
RagEngine(use_openai, available, order) ==
  [use_openai |-> use_openai /\ available,
   openai_client |-> use_openai /\ available,
   order |-> order]

\* lines 319-331
RECURSIVE ContextParts(_, _)
ContextParts(results, i) ==
  IF i > Len(results) THEN <<>>
  \* '\n--- Documento ', ' ---'
  ELSE <<<<"\n", "-", "-", "-", " ", "D", "o", "c", "u", "m", "e", "n", "t", "o",
      " ">> \o IntToStr(i) \o <<":", " ">> \o results[i].filename \o <<" ", "-", "-",
      "-">>>>
         \o (IF Get(results[i], "highlight", <<>>) # <<>> THEN <<results[i].highlight>>
             ELSE IF Get(results[i], "summary", <<>>) # <<>> THEN <<results[i].summary>>
             ELSE <<>>)
         \o ContextParts(results, i + 1)

PrepareContextForLLM(results) == Join(<<NL>>, ContextParts(Take(results, 3), 1))

\* lines 99-107: the completion request; of the prompt, the parts that vary
CompletionRequest(query, results) ==
  [model |-> "gpt-3.5-turbo",
   documents_text |-> PrepareContextForLLM(results),
   query |-> query,
   max_tokens |-> 800]

\* lines 346-366: one line of the reply
\* a plausible slip: the markers are looked for in the line as it is written
ParseLine_caseSensitive(st, line) ==
  LET line_upper == StripStr(line) IN
    IF Contains(<<"F", "L", "U", "S", "S", "O", ":">>, line_upper) \/ Contains(<<"F", "L",
        "O", "W", ":">>, line_upper)
    THEN [st EXCEPT !.current_section = "flow"]
    ELSE IF Contains(<<"S", "U", "G", "G", "E", "R", "I", "M", "E", "N", "T">>,
        line_upper) \/ Contains(<<"S", "U", "G", "G", "E", "S", "T", "I", "O", "N">>,
        line_upper)
    THEN [st EXCEPT !.current_section = "suggestions"]
    ELSE IF Contains(<<"R", "I", "S", "P", "O", "S", "T", "A", ":">>,
        line_upper) \/ Contains(<<"A", "N", "S", "W", "E", "R", ":">>, line_upper)
    THEN [st EXCEPT !.current_section = "answer"]
    ELSE IF st.current_section = "answer"
    THEN [st EXCEPT !.answer_lines = Append(@, line)]
    ELSE IF st.current_section = "flow"
    THEN IF StripStr(line) # <<>>
         THEN [st EXCEPT !.flow_lines = Append(@, StripStr(line))] ELSE st
    ELSE IF StripStr(line) # <<>>
         THEN [st EXCEPT !.suggestion_lines = Append(@, StripStr(line))] ELSE st

ParseLine(st, line) ==
  LET line_upper == StripStr(Upper(line)) IN
    \* 'FLUSSO:', 'FLOW:'
    IF Contains(<<"F", "L", "U", "S", "S", "O", ":">>, line_upper) \/ Contains(<<"F", "L",
        "O", "W", ":">>, line_upper)
    THEN [st EXCEPT !.current_section = "flow"]
    \* 'SUGGERIMENT', 'SUGGESTION'
    ELSE IF Contains(<<"S", "U", "G", "G", "E", "R", "I", "M", "E", "N", "T">>,
        line_upper) \/ Contains(<<"S", "U", "G", "G", "E", "S", "T", "I", "O", "N">>,
        line_upper)
    THEN [st EXCEPT !.current_section = "suggestions"]
    \* 'RISPOSTA:', 'ANSWER:'
    ELSE IF Contains(<<"R", "I", "S", "P", "O", "S", "T", "A", ":">>,
        line_upper) \/ Contains(<<"A", "N", "S", "W", "E", "R", ":">>, line_upper)
    THEN [st EXCEPT !.current_section = "answer"]
    ELSE IF st.current_section = "answer"
    THEN [st EXCEPT !.answer_lines = Append(@, line)]
    ELSE IF st.current_section = "flow"
    THEN IF StripStr(line) # <<>>
         THEN [st EXCEPT !.flow_lines = Append(@, StripStr(line))] ELSE st
    ELSE IF StripStr(line) # <<>>
         THEN [st EXCEPT !.suggestion_lines = Append(@, StripStr(line))] ELSE st

RECURSIVE ParseLines(_, _)
ParseLines(st, lines) ==
  IF lines = <<>> THEN st ELSE ParseLines(ParseLine(st, Head(lines)), Tail(lines))

\* lines 333-372
ParseOpenAIResponse(response_text) ==
  LET st == ParseLines([current_section |-> "answer", answer_lines |-> <<>>,
                        flow_lines |-> <<>>, suggestion_lines |-> <<>>],
                       Split(response_text, NL))
  IN  [answer |-> StripStr(Join(<<NL>>, st.answer_lines)),
       flow |-> IF st.flow_lines # <<>> THEN st.flow_lines
                \* 'Consulta i documenti trovati'
                ELSE <<<<"C", "o", "n", "s", "u", "l", "t", "a", " ", "i", " ", "d", "o",
                    "c", "u", "m", "e", "n", "t", "i", " ", "t", "r", "o", "v", "a", "t",
                    "i">>>>,
       suggestions |-> Take(st.suggestion_lines, 5)]

\* what the backend does with the completion request
RaiseTimeout == [kind |-> "raise", error |-> "APITimeoutError"]
RaiseAuth == [kind |-> "raise", error |-> "AuthenticationError"]
RaiseQuota == [kind |-> "raise", error |-> "RateLimitError"]
NoChoices == [kind |-> "response", choices |-> <<>>]
NoContent == [kind |-> "response", choices |-> <<[isNone |-> TRUE]>>]
ReplyFull ==
  [kind |-> "response",
   choices |-> <<[content |->
     \* 'Risposta:\nok \nFLUSSO:\n a -> b\n\nSuggerimenti:\nx\n'
     <<"R", "i", "s", "p", "o", "s", "t", "a", ":", "\n", "o", "k", " ", "\n", "F", "L",
         "U", "S", "S", "O", ":", "\n", " ", "a", " ", "-", ">", " ", "b", "\n", "\n",
         "S", "u", "g", "g", "e", "r", "i", "m", "e", "n", "t", "i", ":", "\n", "x",
         "\n">>]>>]
ReplyPlain == [kind |-> "response", choices |-> <<[content |-> <<"o", "k">>]>>]
Replies == {RaiseTimeout, RaiseAuth, RaiseQuota, NoChoices, NoContent,
            ReplyFull, ReplyPlain}

\* lines 99-112: the exception the call, choices[0] or the parse raises, or the
\* parsed reply
CompletionOutcome(reply) ==
  IF reply.kind = "raise" THEN [exc |-> reply.error]
  ELSE IF reply.choices = <<>> THEN [exc |-> "IndexError"]
  ELSE IF "isNone" \in DOMAIN reply.choices[1] THEN [exc |-> "AttributeError"]
  ELSE [exc |-> "none", parsed |-> ParseOpenAIResponse(reply.choices[1].content)]

\* the classes derived from Exception
ExceptionClasses ==
  {"APITimeoutError", "AuthenticationError", "RateLimitError", "IndexError",
   "AttributeError"}

\* a plausible slip: only the backend's own errors are caught
Caught_onlyBackendErrors(exc) == exc \in {"APITimeoutError", "AuthenticationError",
    "RateLimitError"}

\* line 122: except Exception
Caught(exc) == exc \in ExceptionClasses

\* lines 73-125
GenerateOpenAIAnswer(engine, query, results, reply) ==
  LET o == CompletionOutcome(reply)
      calls == <<CompletionRequest(query, results)>>
  IN  IF o.exc = "none"
      THEN [raised |-> FALSE, calls |-> calls,
            out |-> [answer |-> o.parsed.answer,
                     confidence |-> 85,
                     sources |-> ExtractSources(Take(results, 3)),
                     flow |-> o.parsed.flow,
                     suggestions |-> o.parsed.suggestions]]
      ELSE IF Caught(o.exc)
      THEN [raised |-> FALSE, calls |-> calls,
            out |-> GenerateRuleBasedAnswer(query, results, engine.order)]
      ELSE [raised |-> TRUE, calls |-> calls, out |-> EmptyRec]

UsesOpenAI(engine, results) ==
  results # <<>> /\ engine.use_openai /\ engine.openai_client

\* a plausible slip: the strategy is chosen before the result list is looked at
GenerateAnswerRun_strategyFirst(engine, query, results, reply) ==
  IF engine.use_openai /\ engine.openai_client
  THEN GenerateOpenAIAnswer(engine, query, results, reply)
  ELSE IF results = <<>>
  THEN [raised |-> FALSE, calls |-> <<>>, out |-> GenerateNoResultsResponse(query)]
  ELSE [raised |-> FALSE, calls |-> <<>>,
        out |-> GenerateRuleBasedAnswer(query, results, engine.order)]

\* lines 49-71
GenerateAnswerRun(engine, query, results, reply) ==
  IF results = <<>>
  THEN [raised |-> FALSE, calls |-> <<>>, out |-> GenerateNoResultsResponse(query)]
  ELSE IF engine.use_openai /\ engine.openai_client
  THEN GenerateOpenAIAnswer(engine, query, results, reply)
  ELSE [raised |-> FALSE, calls |-> <<>>,
        out |-> GenerateRuleBasedAnswer(query, results, engine.order)]

\* results as search returns them and as other callers build them (keys left out)
ResultGuida ==
  \* 'guida.pdf', 'PDF Document'
  [id |-> 1, filename |-> <<"g", "u", "i", "d", "a", ".", "p", "d", "f">>, type |-> <<"P",
      "D", "F", " ", "D", "o", "c", "u", "m", "e", "n", "t">>, score |-> 156234,
   \* '<em>alfa</em> beta', 'alfa beta'
   highlight |-> <<"<", "e", "m", ">", "a", "l", "f", "a", "<", "/", "e", "m", ">", " ",
       "b", "e", "t", "a">>, summary |-> <<"a", "l", "f", "a", " ", "b", "e", "t", "a">>,
   \* 'Alfa', 'beta', '/uploads/guida.pdf'
   keywords |-> <<<<"A", "l", "f", "a">>, <<"b", "e", "t", "a">>>>, file_path |-> <<"/",
       "u", "p", "l", "o", "a", "d", "s", "/", "g", "u", "i", "d", "a", ".", "p", "d",
       "f">>]

ResultNote ==
  \* 'note.txt', 'Text Document'
  [id |-> 2, filename |-> <<"n", "o", "t", "e", ".", "t", "x", "t">>, type |-> <<"T", "e",
      "x", "t", " ", "D", "o", "c", "u", "m", "e", "n", "t">>, score |-> 10000,
   \* 'gamma beta'
   highlight |-> <<>>, summary |-> <<"g", "a", "m", "m", "a", " ", "b", "e", "t", "a">>,
   \* 'beta', 'gamma'
   keywords |-> <<<<"b", "e", "t", "a">>, <<"g", "a", "m", "m", "a">>>>]

ResultEmpty ==
  \* 'b.pdf', 'PDF Document'
  [id |-> 3, filename |-> <<"b", ".", "p", "d", "f">>, type |-> <<"P", "D", "F", " ", "D",
      "o", "c", "u", "m", "e", "n", "t">>, score |-> 250000,
   highlight |-> <<>>, summary |-> <<>>]

ResultDelta ==
  \* 'delta.txt', 'Text Document'
  [id |-> 4, filename |-> <<"d", "e", "l", "t", "a", ".", "t", "x", "t">>, type |-> <<"T",
      "e", "x", "t", " ", "D", "o", "c", "u", "m", "e", "n", "t">>, score |-> 42000,
   \* 'delta omega'
   highlight |-> <<>>, summary |-> <<"d", "e", "l", "t", "a", " ", "o", "m", "e", "g",
       "a">>,
   \* 'delta', 'omega', 'gamma'
   keywords |-> <<<<"d", "e", "l", "t", "a">>, <<"o", "m", "e", "g", "a">>, <<"g", "a",
       "m", "m", "a">>>>]

RagResults == {ResultGuida, ResultNote, ResultEmpty, ResultDelta}

\* lists longer than the five results the suggestions look at
SixResults ==
  {<<ResultEmpty, ResultEmpty, ResultEmpty, ResultEmpty, ResultNote, ResultDelta>>,
   <<ResultGuida, ResultEmpty, ResultEmpty, ResultNote, ResultNote, ResultDelta>>}

ResultLists == UNION {[1..n -> RagResults] : n \in 0..MaxResults} \cup SixResults

\* 'Come alfa', 'cosa', 'dove beta', 'gamma'
RagQueries == {<<"C", "o", "m", "e", " ", "a", "l", "f", "a">>, <<"c", "o", "s", "a">>,
    <<"d", "o", "v", "e", " ", "b", "e", "t", "a">>, <<"g", "a", "m", "m", "a">>}

TypeOrders ==
  \* 'PDF Document', 'Text Document', 'Text Document', 'PDF Document'
  {<<<<"P", "D", "F", " ", "D", "o", "c", "u", "m", "e", "n", "t">>, <<"T", "e", "x", "t",
      " ", "D", "o", "c", "u", "m", "e", "n", "t">>>>, <<<<"T", "e", "x", "t", " ", "D",
      "o", "c", "u", "m", "e", "n", "t">>, <<"P", "D", "F", " ", "D", "o", "c", "u", "m",
      "e", "n", "t">>>>}

\* app.py lines 49-52: the engine is built once
RagStart(use_openai, available, order) ==
  /\ rag.op = "none"
  /\ rag' = [op |-> "ready", engine |-> RagEngine(use_openai, available, order)]
  /\ UNCHANGED <<mig, sq, pcall, sql, fix>>
  /\ UNCHANGED idxVars
  /\ UNCHANGED upVars

\* generate_answer(SearchContext(query, results, total))
GenerateAnswer(query, results, reply) ==
  /\ rag.op = "ready"
  /\ (~UsesOpenAI(rag.engine, results)) => reply = RaiseTimeout
  /\ LET run == GenerateAnswerRun(rag.engine, query, results, reply) IN
       rag' = [op |-> "answered", engine |-> rag.engine, query |-> query,
               results |-> results, reply |-> reply, raised |-> run.raised,
               calls |-> run.calls, out |-> run.out]
  /\ UNCHANGED <<mig, sq, pcall, sql, fix>>
  /\ UNCHANGED idxVars
  /\ UNCHANGED upVars

\* the caller has the answer; the engine keeps nothing of the call
RagReturn ==
  /\ rag.op = "answered"
  /\ rag' = [op |-> "ready", engine |-> rag.engine]
  /\ UNCHANGED <<mig, sq, pcall, sql, fix>>
  /\ UNCHANGED idxVars
  /\ UNCHANGED upVars

NextRag ==
  \/ \E use_openai \in BOOLEAN, available \in BOOLEAN, order \in TypeOrders :
       RagStart(use_openai, available, order)
  \/ \E query \in RagQueries, results \in ResultLists, reply \in Replies :
       GenerateAnswer(query, results, reply)
  \/ RagReturn

SpecRag == Init /\ [][NextRag]_vars

-----------------------------------------------------------------------------
(* Claims about the answer engine *)

ReplyFails(reply) ==
  \/ reply.kind = "raise"
  \/ reply.choices = <<>>
  \/ "content" \notin DOMAIN reply.choices[1]

\* C3: with the generative strategy on and a non-empty result list, a completion
\* call that raises, or a reply that cannot be read, gives the caller the answer
\* an engine without the generative strategy gives for the same query and
\* results, and nothing is raised.
C3_GenerativeFailureFallsBack ==
  (rag.op = "answered" /\ UsesOpenAI(rag.engine, rag.results) /\ ReplyFails(rag.reply))
    => /\ ~rag.raised
       /\ Len(rag.calls) = 1
       /\ rag.out = GenerateAnswerRun(RagEngine(FALSE, FALSE, rag.engine.order),
                                      rag.query, rag.results, rag.reply).out
       /\ rag.out = GenerateRuleBasedAnswer(rag.query, rag.results, rag.engine.order)
       /\ rag.out.confidence = CalculateConfidence(rag.results)

C3_Witness ==
  /\ rag.op = "answered" /\ UsesOpenAI(rag.engine, rag.results)
  /\ rag.reply = NoContent
  /\ Len(rag.results) = 3
  /\ ~rag.raised
  /\ rag.out.confidence = 94
  /\ Len(rag.out.flow) = 4


\* C12: for an empty result list generate_answer returns confidence 0.0, no
\* sources, an empty flow and exactly three suggestions, with the generative
\* strategy enabled or not, and sends nothing to the generative backend.
C12_EmptyResultsFixedAnswer ==
  (rag.op = "answered" /\ rag.results = <<>>)
    => /\ rag.calls = <<>>
       /\ ~rag.raised
       /\ rag.out.confidence = 0
       /\ rag.out.sources = <<>>
       /\ rag.out.flow = <<>>
       /\ Len(rag.out.suggestions) = 3

C12_Witness ==
  /\ rag.op = "answered" /\ rag.results = <<>>
  /\ rag.engine.use_openai /\ rag.engine.openai_client
  /\ rag.calls = <<>>
  /\ rag.out.confidence = 0


\* C13: for a non-empty result list and either strategy the confidence of the
\* answer lies in [0.0, 1.0] (0 to 100 hundredths); for an empty list it is 0.0.
C13_ConfidenceInUnitInterval ==
  (rag.op = "answered" /\ ~rag.raised)
    => /\ rag.out.confidence >= 0
       /\ rag.out.confidence <= 100
       /\ rag.results = <<>> => rag.out.confidence = 0

\* a top score above 20 with three results: both caps apply
C13_Witness ==
  /\ rag.op = "answered" /\ ~rag.raised
  /\ Len(rag.results) = 3
  /\ rag.results[1].score > 200000
  /\ ~UsesOpenAI(rag.engine, rag.results)
  /\ rag.out.confidence = 100


\* the value the sentence gives, as a fraction of integers: scores are in
\* ten-thousandths, so topScore / 20 is score / 200000
StatedConfidence(results) ==
  LET base == IF results[1].score >= 200000 THEN [num |-> 1, den |-> 1]
              ELSE [num |-> results[1].score, den |-> 200000]
  IN  IF Len(results) < 3 THEN base
      ELSE IF 6 * base.num >= 5 * base.den THEN [num |-> 1, den |-> 1]
      ELSE [num |-> 6 * base.num, den |-> 5 * base.den]

RuleBasedCall ==
  /\ rag.op = "answered" /\ rag.results # <<>>
  /\ ~UsesOpenAI(rag.engine, rag.results)

\* C14: the rule-based confidence equals min(topScore / 20, 1.0), multiplied by
\* 1.2 and capped again at 1.0 when at least 3 results were returned, and left
\* unmultiplied when fewer than 3 were returned.
C14_ConfidenceEqualsFormula ==
  RuleBasedCall =>
    LET f == StatedConfidence(rag.results) IN
      rag.out.confidence * f.den = 100 * f.num

\* C14 as amended: the rule-based confidence is that value rounded to two
\* decimals, that is the multiple of 0.01 nearest to it.
C14_ConfidenceIsFormulaRounded ==
  RuleBasedCall =>
    LET f == StatedConfidence(rag.results)
        d == rag.out.confidence * f.den - 100 * f.num
    IN  2 * d <= f.den /\ 2 * d >= 0 - f.den

\* three results, top score 15.6234: 0.937404 by the sentence, 0.94 returned
C14_Witness ==
  /\ RuleBasedCall
  /\ Len(rag.results) = 3
  /\ rag.results[1].score = 156234
  /\ rag.out.confidence = 94


\* a step of the flow: its number, and what it names after the label's colon
StepNumber(step) == CHOOSE n \in 1..4 : Digits[n + 1] = step[1]

StepBody(step) ==
  LET colon == CHOOSE i \in DOMAIN step :
                 step[i] = ":" /\ \A j \in 1..(i - 1) : step[j] # ":"
  IN  SubSeq(step, colon + 2, Len(step))

\* how many names a comma-separated body lists
NamesIn(body) == Cardinality({i \in DOMAIN body : body[i] = ","}) + 1

\* C21: the exploration flow of a non-empty result list has between 1 and 4 steps
\* in the order top document, related documents, recurring keywords, document
\* types: the related-documents step is there exactly when there are at least 2
\* results and names at most 2 filenames, the keywords step exactly when the top 3
\* results carry a keyword and names at most 3, the types step exactly when the
\* results span more than one type; no step is empty.
C21_FlowStepsInOrder ==
  RuleBasedCall =>
    LET flow == rag.out.flow
        r == rag.results
        has(n) == \E i \in DOMAIN flow : StepNumber(flow[i]) = n
    IN  /\ Len(flow) >= 1 /\ Len(flow) <= 4
        /\ StepNumber(flow[1]) = 1
        /\ \A i, j \in DOMAIN flow : i < j => StepNumber(flow[i]) < StepNumber(flow[j])
        /\ \A i \in DOMAIN flow : StepBody(flow[i]) # <<>>
        /\ has(2) <=> Len(r) >= 2
        /\ has(3) <=> \E i \in 1..Min(3, Len(r)) : Get(r[i], "keywords", <<>>) # <<>>
        /\ has(4) <=> Cardinality({r[i].type : i \in DOMAIN r}) > 1
        /\ \A i \in DOMAIN flow :
             /\ StepNumber(flow[i]) = 2 => NamesIn(StepBody(flow[i])) <= 2
             /\ StepNumber(flow[i]) = 3 => NamesIn(StepBody(flow[i])) <= 3

\* three results of two types with five different keywords: all four steps, and
\* two keywords left out
C21_Witness ==
  /\ RuleBasedCall
  /\ rag.results = <<ResultGuida, ResultNote, ResultDelta>>
  /\ Len(rag.out.flow) = 4
  /\ NamesIn(StepBody(rag.out.flow[3])) = 3


\* the two kinds of suggestion, told apart by their label
IsKeywordSuggestion(s) == Take(s, 13) = <<"C", "e", "r", "c", "a", " ", "a", "n", "c",
    "h", "e", ":", " ">>

IsTypeSuggestion(s) == Take(s, 12) = <<"F", "i", "l", "t", "r", "a", " ", "p", "e", "r",
    ":", " ">>

-----------------------------------------------------------------------------
(* DocumentParser.parse and the helpers of the upload handlers *)

\* SUPPORTED_EXTENSIONS, lines 52-65
SUPPORTED_EXTENSIONS ==
  \* '.pdf', 'PDF Document', '.doc', 'Word Document'
  <<<<<<".", "p", "d", "f">>, <<"P", "D", "F", " ", "D", "o", "c", "u", "m", "e", "n",
      "t">>>>, <<<<".", "d", "o", "c">>, <<"W", "o", "r", "d", " ", "D", "o", "c", "u",
      "m", "e", "n", "t">>>>,
    \* '.docx', 'Word Document', '.xls', 'Excel Spreadsheet'
    <<<<".", "d", "o", "c", "x">>, <<"W", "o", "r", "d", " ", "D", "o", "c", "u", "m",
        "e", "n", "t">>>>, <<<<".", "x", "l", "s">>, <<"E", "x", "c", "e", "l", " ", "S",
        "p", "r", "e", "a", "d", "s", "h", "e", "e", "t">>>>,
    \* '.xlsx', 'Excel Spreadsheet', '.html', 'HTML Document'
    <<<<".", "x", "l", "s", "x">>, <<"E", "x", "c", "e", "l", " ", "S", "p", "r", "e",
        "a", "d", "s", "h", "e", "e", "t">>>>, <<<<".", "h", "t", "m", "l">>, <<"H", "T",
        "M", "L", " ", "D", "o", "c", "u", "m", "e", "n", "t">>>>,
    \* '.htm', 'HTML Document', 'Markdown Document'
    <<<<".", "h", "t", "m">>, <<"H", "T", "M", "L", " ", "D", "o", "c", "u", "m", "e",
        "n", "t">>>>, <<<<".", "m", "d">>, <<"M", "a", "r", "k", "d", "o", "w", "n", " ",
        "D", "o", "c", "u", "m", "e", "n", "t">>>>,
    \* '.txt', 'Text Document', '.csv', 'CSV File'
    <<<<".", "t", "x", "t">>, <<"T", "e", "x", "t", " ", "D", "o", "c", "u", "m", "e",
        "n", "t">>>>, <<<<".", "c", "s", "v">>, <<"C", "S", "V", " ", "F", "i", "l",
        "e">>>>,
    \* '.msg', 'Outlook Message', '.pst', 'Outlook Archive'
    <<<<".", "m", "s", "g">>, <<"O", "u", "t", "l", "o", "o", "k", " ", "M", "e", "s",
        "s", "a", "g", "e">>>>, <<<<".", "p", "s", "t">>, <<"O", "u", "t", "l", "o", "o",
        "k", " ", "A", "r", "c", "h", "i", "v", "e">>>>>>

SupportedKeys == {SUPPORTED_EXTENSIONS[i][1] : i \in DOMAIN SUPPORTED_EXTENSIONS}

\* SUPPORTED_EXTENSIONS.get(extension, 'Unknown')
TypeOfExtension(extension) ==
  IF extension \in SupportedKeys
  THEN SUPPORTED_EXTENSIONS[CHOOSE i \in DOMAIN SUPPORTED_EXTENSIONS :
                              SUPPORTED_EXTENSIONS[i][1] = extension][2]
  \* 'Unknown'
  ELSE <<"U", "n", "k", "n", "o", "w", "n">>

\* self.parsers, lines 68-81: the same keys
ParserKeys == SupportedKeys

\* s.rfind(c), counted from 1; 0 when c does not occur
RFind(s, c) ==
  IF \E i \in DOMAIN s : s[i] = c
  THEN CHOOSE i \in DOMAIN s : s[i] = c /\ \A j \in (i + 1)..Len(s) : s[j] # c
  ELSE 0

\* Path(p).name
PathName(p) == SubSeq(p, RFind(p, "/") + 1, Len(p))

\* Path(p).suffix: from the last dot of the name, unless the dot starts or ends it
PathSuffix(p) ==
  LET name == PathName(p)
      i == RFind(name, ".")
  IN  IF 1 < i /\ i < Len(name) THEN SubSeq(name, i, Len(name)) ELSE <<>>

\* werkzeug's secure_filename for ASCII names: separators become blanks, the
\* words are joined with "_", every character outside [A-Za-z0-9_.-] is dropped,
\* leading and trailing dots and underscores are stripped
FilenameChars ==
  Range(LowerCase) \cup Range(UpperCase) \cup Range(Digits) \cup {"_", ".", "-"}

RECURSIVE StripDots(_)
StripDots(s) ==
  IF s # <<>> /\ Head(s) \in {".", "_"} THEN StripDots(Tail(s))
  ELSE IF s # <<>> /\ s[Len(s)] \in {".", "_"} THEN StripDots(SubSeq(s, 1, Len(s) - 1))
  ELSE s

\* str.split(): the words between runs of whitespace
Words(s) ==
  SelectSeq(Split([i \in DOMAIN s |-> IF s[i] \in Whitespace THEN " " ELSE s[i]], " "),
            LAMBDA w : w # <<>>)

SecureFilename(filename) ==
  LET spaced == [i \in DOMAIN filename |->
                   IF filename[i] \in {"/", "\\"} THEN " " ELSE filename[i]]
      joined == Join(<<"_">>, Words(spaced))
  IN  StripDots(SelectSeq(joined, LAMBDA c : c \in FilenameChars))

\* n in decimal, at least width digits
RECURSIVE ZeroPad(_, _)
ZeroPad(s, width) == IF Len(s) >= width THEN s ELSE ZeroPad(<<"0">> \o s, width)

\* the clock counts microseconds from 2024-01-01 00:00:00 and stays in that minute
MicrosPerSecond == 1000000

\* datetime.now().strftime('%Y%m%d_%H%M%S')
TimestampSeconds(now) ==
  \* '20240101_0000'
  <<"2", "0", "2", "4", "0", "1", "0", "1", "_", "0", "0", "0",
      "0">> \o ZeroPad(IntToStr(now \div MicrosPerSecond), 2)

\* datetime.now().strftime('%Y%m%d_%H%M%S_%f')
TimestampMicros(now) ==
  TimestampSeconds(now) \o <<"_">> \o ZeroPad(IntToStr(now % MicrosPerSecond), 6)

\* '/uploads/'
UploadFolder == <<"/", "u", "p", "l", "o", "a", "d", "s", "/">>

\* tags_input.strip(), then [tag.strip() for tag in tags_input.split(',') if tag.strip()]
ParseTags(tags_input) ==
  LET stripped == StripStr(tags_input)
      parts == Split(stripped, ",")
      cleaned == [i \in DOMAIN parts |-> StripStr(parts[i])]
  IN  IF stripped = <<>> THEN <<>> ELSE SelectSeq(cleaned, LAMBDA tag : tag # <<>>)

\* re \w for the characters of the model
WordChars == Range(LowerCase) \cup Range(UpperCase) \cup Range(Digits) \cup {"_", "é",
    "è"}

StopWords ==
  {<<"i", "l">>, <<"l", "o">>, <<"l", "a">>, <<"i">>, <<"g", "l", "i">>, <<"l", "e">>,
      <<"u", "n">>, <<"u", "n", "o">>, <<"u", "n", "a">>,
   <<"d", "i">>, <<"a">>, <<"d", "a">>, <<"i", "n">>, <<"c", "o", "n">>, <<"s", "u">>,
       <<"p", "e", "r">>, <<"t", "r", "a">>, <<"f", "r", "a">>,
   <<"t", "h", "e">>, <<"a", "n">>, <<"a", "n", "d">>, <<"o", "r">>, <<"b", "u", "t">>,
       <<"o", "n">>, <<"a", "t">>, <<"t", "o">>, <<"f", "o", "r">>,
   \* 'with', 'from', 'were'
   <<"o", "f">>, <<"w", "i", "t", "h">>, <<"b", "y">>, <<"f", "r", "o", "m">>, <<"i",
       "s">>, <<"a", "r", "e">>, <<"w", "a", "s">>, <<"w", "e", "r", "e">>, <<"b", "e">>,
   \* 'been', 'della', 'delle'
   <<"b", "e", "e", "n">>, <<"e">>, <<"è">>, <<"c", "h", "e">>, <<"d", "e", "l">>, <<"d",
       "e", "l", "l", "a">>, <<"d", "e", "i">>, <<"d", "e", "l", "l", "e">>,
   \* 'nella', 'page', 'document', 'file', 'text'
   <<"n", "e", "l">>, <<"n", "e", "l", "l", "a">>, <<"p", "a", "g", "e">>, <<"d", "o",
       "c", "u", "m", "e", "n", "t">>, <<"f", "i", "l", "e">>, <<"t", "e", "x", "t">>}

\* a plausible slip: the words are never sorted by their counts
ExtractKeywords_unsorted(text, max_keywords) ==
  LET lowered == Lower(text)
      clean_text == [i \in DOMAIN lowered |->
                       IF lowered[i] \in WordChars \cup Whitespace
                       THEN lowered[i] ELSE " "]
      words == Words(clean_text)
      filtered_words == SelectSeq(words, LAMBDA w : Len(w) > 3 /\ w \notin StopWords)
  IN  Take(FirstSeen(filtered_words), max_keywords)

\* lines 268-305
ExtractKeywords(text, max_keywords) ==
  LET lowered == Lower(text)
      clean_text == [i \in DOMAIN lowered |->
                       IF lowered[i] \in WordChars \cup Whitespace
                       THEN lowered[i] ELSE " "]
      words == Words(clean_text)
      filtered_words == SelectSeq(words, LAMBDA w : Len(w) > 3 /\ w \notin StopWords)
  IN  Take(SortByCount(FirstSeen(filtered_words), filtered_words), max_keywords)

\* lines 307-319
GenerateSummary(text, max_chars) ==
  LET summary == StripStr(Take(text, max_chars))
      last_period == RFind(summary, ".") - 1
  IN  IF last_period > 0 THEN Take(summary, last_period + 1) ELSE summary

\* what is in an uploaded file: text a format handler can extract, or bytes on
\* which the handler raises
\* 'Alpha beta. The alpha'
BodyAlpha == [readable |-> TRUE, text |-> <<"A", "l", "p", "h", "a", " ", "b", "e", "t",
    "a", ".", " ", "T", "h", "e", " ", "a", "l", "p", "h", "a">>, size |-> 21]
\* 'gamma'
BodyGamma == [readable |-> TRUE, text |-> <<"g", "a", "m", "m", "a">>, size |-> 5]
\* 'EOF marker not found'
BodyBroken == [readable |-> FALSE, error |-> <<"E", "O", "F", " ", "m", "a", "r", "k",
    "e", "r", " ", "n", "o", "t", " ", "f", "o", "u", "n", "d">>, size |-> 3]

\* line 116: self.parsers[extension](file_path)
HandlerRun(extension, body) ==
  IF body.readable THEN [exc |-> FALSE, content |-> body.text]
  ELSE [exc |-> TRUE, error |-> body.error]

\* lines 83-148
ParseRun(dsk, file_path) ==
  IF file_path \notin DOMAIN dsk
  \* 'File not found: '
  THEN [success |-> FALSE, error |-> <<"F", "i", "l", "e", " ", "n", "o", "t", " ", "f",
      "o", "u", "n", "d", ":", " ">> \o file_path]
  ELSE
    LET extension == Lower(PathSuffix(file_path)) IN
      IF extension \notin ParserKeys
      \* 'Unsupported file type: '
      THEN [success |-> FALSE, error |-> <<"U", "n", "s", "u", "p", "p", "o", "r", "t",
          "e", "d", " ", "f", "i", "l", "e", " ", "t", "y", "p", "e", ":",
          " ">> \o extension]
      ELSE
        LET h == HandlerRun(extension, dsk[file_path]) IN
          IF h.exc
          THEN [success |-> FALSE, error |-> h.error, filename |-> PathName(file_path)]
          ELSE [success |-> TRUE, filename |-> PathName(file_path),
                extension |-> extension, type |-> TypeOfExtension(extension),
                content |-> h.content,
                metadata |-> [filename |-> PathName(file_path),
                              extension |-> extension,
                              type |-> TypeOfExtension(extension),
                              size |-> dsk[file_path].size,
                              path |-> file_path],
                keywords |-> ExtractKeywords(h.content, 20),
                summary |-> GenerateSummary(h.content, 500)]

\* file.save(path)
SaveFile(dsk, path, body) ==
  [p \in DOMAIN dsk \cup {path} |-> IF p = path THEN body ELSE dsk[p]]

-----------------------------------------------------------------------------
(* app.py: api_upload_directory, one action per request to the handler and per  *)
(* file of its loop                                                             *)

\* the files a client sends: name and content
\* 'a.txt'
FileAlpha == [filename |-> <<"a", ".", "t", "x", "t">>, body |-> BodyAlpha]
\* 'a.txt'
FileGamma == [filename |-> <<"a", ".", "t", "x", "t">>, body |-> BodyGamma]
\* 'b.pdf'
FileBroken == [filename |-> <<"b", ".", "p", "d", "f">>, body |-> BodyBroken]
\* 'x.exe'
FileExe == [filename |-> <<"x", ".", "e", "x", "e">>, body |-> BodyGamma]
FileDots == [filename |-> <<".", ".", "/">>, body |-> BodyGamma]
FileUnnamed == [filename |-> <<>>, body |-> BodyGamma]

\* ' x, ,y,x '
TagInputs == {<<>>, <<" ", "x", ",", " ", ",", "y", ",", "x", " ">>}

DirFiles == {FileAlpha, FileBroken, FileExe, FileDots}

\* a form sent without a chosen file carries one file part with an empty name
FileLists == UNION {[1..n -> DirFiles] : n \in 0..MaxFiles} \cup {<<FileUnnamed>>}

\* a multipart request: with or without the files[] part
DirRequests ==
  {[tags |-> t] : t \in TagInputs}
    \cup {[files |-> fs, tags |-> t] : fs \in FileLists, t \in TagInputs}

\* lines 267-303: the checks before the loop, and the empty tally
DirStart(request) ==
  /\ dirUp.op = "none"
  /\ dirUp' =
       IF "files" \notin DOMAIN request
       THEN [op |-> "done", status |-> 400, request |-> request,
             \* 'No files provided'
             response |-> [success |-> FALSE, error |-> <<"N", "o", " ", "f", "i", "l",
                 "e", "s", " ", "p", "r", "o", "v", "i", "d", "e", "d">>]]
       ELSE IF request.files = <<>>
                 \/ (Len(request.files) = 1 /\ request.files[1].filename = <<>>)
       THEN [op |-> "done", status |-> 400, request |-> request,
             \* 'No files selected'
             response |-> [success |-> FALSE, error |-> <<"N", "o", " ", "f", "i", "l",
                 "e", "s", " ", "s", "e", "l", "e", "c", "t", "e", "d">>]]
       ELSE [op |-> "loop", request |-> request, files |-> request.files,
             tags |-> ParseTags(request.tags), idx |-> 1,
             results |-> [success |-> TRUE, total_files |-> Len(request.files),
                          uploaded |-> 0, failed |-> 0,
                          documents |-> <<>>, errors |-> <<>>]]
  /\ UNCHANGED <<mig, sq, rag, pcall, sql, fix, disk, clock, up>>
  /\ UNCHANGED idxVars

Failed(results, filename, error) ==
  [results EXCEPT !.failed = @ + 1,
                  !.errors = Append(@, [filename |-> filename, error |-> error])]

Uploaded(results, document) ==
  [results EXCEPT !.uploaded = @ + 1, !.documents = Append(@, document)]

\* a plausible slip: the first failing file ends the loop
AfterFailure_stops(d) == Len(d.files) + 1

\* continue, and the end of the except block: on to the next file
AfterFailure(d) == d.idx + 1

\* lines 305-385: one pass of the loop. fault: file.save raises, or the backend
\* refuses the write
DirFileRun(d, ix, dsk, id, now, fault) ==
  LET file == d.files[d.idx]
      filename == SecureFilename(file.filename)
      file_ext == Lower(PathSuffix(filename))
      file_path == UploadFolder \o TimestampMicros(now) \o <<"_">> \o filename
      saved == SaveFile(dsk, file_path, file.body)
      parsed_doc == ParseRun(saved, file_path)
      tagged == [k \in DOMAIN parsed_doc \cup {"tags"} |->
                   IF k = "tags" THEN d.tags ELSE parsed_doc[k]]
      ir == IndexDocumentRun(ix, id, tagged, now, fault = "index")
      same == [indices |-> ix, nextId |-> id, disk |-> dsk, idx |-> 0,
               results |-> d.results]
      kept == [indices |-> ix, nextId |-> id, disk |-> saved, idx |-> 0,
               results |-> d.results]
  IN  IF filename = <<>>
      THEN [same EXCEPT !.idx = AfterFailure(d), !.results =
              \* 'Invalid filename'
              Failed(d.results, file.filename, <<"I", "n", "v", "a", "l", "i", "d", " ",
                  "f", "i", "l", "e", "n", "a", "m", "e">>)]
      ELSE IF file_ext \notin SupportedKeys
      THEN [same EXCEPT !.idx = AfterFailure(d), !.results =
              \* 'Unsupported file type: '
              Failed(d.results, filename, <<"U", "n", "s", "u", "p", "p", "o", "r", "t",
                  "e", "d", " ", "f", "i", "l", "e", " ", "t", "y", "p", "e", ":",
                  " ">> \o file_ext)]
      ELSE IF fault = "save"
      THEN [same EXCEPT !.idx = AfterFailure(d), !.results =
              \* 'No space left on device'
              Failed(d.results, file.filename, <<"N", "o", " ", "s", "p", "a", "c", "e",
                  " ", "l", "e", "f", "t", " ", "o", "n", " ", "d", "e", "v", "i", "c",
                  "e">>)]
      ELSE IF ~parsed_doc.success
      THEN [kept EXCEPT !.idx = AfterFailure(d), !.results =
              \* 'Unknown error'
              Failed(d.results, filename, Get(parsed_doc, "error", <<"U", "n", "k", "n",
                  "o", "w", "n", " ", "e", "r", "r", "o", "r">>))]
      ELSE IF ~ir.result.success
      THEN [kept EXCEPT !.idx = AfterFailure(d), !.results =
              \* 'Failed to index'
              Failed(d.results, filename, Get(ir.result, "error", <<"F", "a", "i", "l",
                  "e", "d", " ", "t", "o", " ", "i", "n", "d", "e", "x">>))]
      ELSE [indices |-> ir.indices, nextId |-> ir.nextId, disk |-> saved,
            idx |-> d.idx + 1,
            results |-> Uploaded(d.results,
                          [id |-> ir.result.doc_id, filename |-> filename,
                           type |-> parsed_doc.type,
                           size |-> parsed_doc.metadata.size])]

DirFaults == {"none", "save", "index"}

DirFile(fault) ==
  /\ dirUp.op = "loop"
  /\ dirUp.idx <= Len(dirUp.files)
  /\ LET r == DirFileRun(dirUp, indices, disk, nextId, clock, fault) IN
       /\ indices' = r.indices
       /\ nextId' = r.nextId
       /\ disk' = r.disk
       /\ dirUp' = [dirUp EXCEPT !.idx = r.idx, !.results = r.results]
  /\ UNCHANGED <<written, lastOp, mig, sq, rag, pcall, sql, fix, clock, up>>

\* lines 387-389: the loop is over, the tally is the response
DirEnd ==
  /\ dirUp.op = "loop"
  /\ dirUp.idx > Len(dirUp.files)
  /\ dirUp' = [op |-> "done", status |-> 200, request |-> dirUp.request,
               response |-> dirUp.results]
  /\ UNCHANGED <<mig, sq, rag, pcall, sql, fix, disk, clock, up>>
  /\ UNCHANGED idxVars

NextDir ==
  \/ \E request \in DirRequests : DirStart(request)
  \/ \E fault \in DirFaults : DirFile(fault)
  \/ DirEnd
  \/ Tick

SpecDir == Init /\ [][NextDir]_vars

-----------------------------------------------------------------------------
(* Claims about the directory upload *)

DirEntries(d) == d.response.documents \o d.response.errors

NamedAs(entries, name) == Cardinality({i \in DOMAIN entries : entries[i].filename = name})

ErrorsOf(d, name) ==
  {d.response.errors[i].error :
     i \in {j \in DOMAIN d.response.errors : d.response.errors[j].filename = name}}

\* C9: a directory upload that reaches its loop passes over every file; when it
\* ends, uploaded + failed = total_files = the number of files sent, documents
\* has uploaded entries and errors has failed entries, every file is in one of
\* the two lists under its name, and a file with an invalid name, an unsupported
\* extension or unreadable content is in errors with that cause, whatever
\* happened to the files before it.
C9_EveryFileAccounted ==
  (dirUp.op = "done" /\ dirUp.status = 200) =>
    LET files == dirUp.request.files
        res == dirUp.response
    IN  /\ res.success
        /\ res.total_files = Len(files)
        /\ res.uploaded + res.failed = res.total_files
        /\ Len(res.documents) = res.uploaded
        /\ Len(res.errors) = res.failed
        /\ \A f \in DirFiles :
             NamedAs(DirEntries(dirUp), f.filename) = CountOf(f, files)
        /\ NamedAs(res.documents, FileAlpha.filename) <= CountOf(FileAlpha, files)
        /\ \A f \in DirFiles \ {FileAlpha} : NamedAs(res.documents, f.filename) = 0
        \* 'Invalid filename'
        /\ ErrorsOf(dirUp, FileDots.filename) \subseteq {<<"I", "n", "v", "a", "l", "i",
            "d", " ", "f", "i", "l", "e", "n", "a", "m", "e">>}
        \* 'Unsupported file type: .exe'
        /\ ErrorsOf(dirUp, FileExe.filename) \subseteq {<<"U", "n", "s", "u", "p", "p",
            "o", "r", "t", "e", "d", " ", "f", "i", "l", "e", " ", "t", "y", "p", "e",
            ":", " ", ".", "e", "x", "e">>}
        /\ ErrorsOf(dirUp, FileBroken.filename)
             \* 'No space left on device'
             \subseteq {BodyBroken.error, <<"N", "o", " ", "s", "p", "a", "c", "e", " ",
                 "l", "e", "f", "t", " ", "o", "n", " ", "d", "e", "v", "i", "c", "e">>}
        /\ ErrorsOf(dirUp, FileAlpha.filename)
             \* 'ConnectionError', 'No space left on device'
             \subseteq {<<"C", "o", "n", "n", "e", "c", "t", "i", "o", "n", "E", "r", "r",
                 "o", "r">>, <<"N", "o", " ", "s", "p", "a", "c", "e", " ", "l", "e", "f",
                 "t", " ", "o", "n", " ", "d", "e", "v", "i", "c", "e">>}

C9_Witness ==
  /\ dirUp.op = "done" /\ dirUp.status = 200
  /\ dirUp.request.files = <<FileBroken, FileExe, FileAlpha>>
  /\ dirUp.response.uploaded = 1
  /\ dirUp.response.failed = 2
  /\ dirUp.response.errors[1].error = BodyBroken.error
  \* 'a.txt'
  /\ dirUp.response.documents[1].filename = <<"a", ".", "t", "x", "t">>

-----------------------------------------------------------------------------
(* app.py: api_upload, requests that run side by side; one action per step at   *)
(* which another request can run                                                *)

UpFiles == {FileAlpha, FileGamma, FileBroken, FileExe, FileUnnamed}

\* a multipart request: with or without the file part, with or without tags
UpRequests ==
  {[tags |-> <<>>]}
    \cup {[file |-> f, tags |-> <<>>] : f \in UpFiles}
    \cup {[file |-> FileAlpha, tags |-> t] : t \in TagInputs}

UpResponse(request, status, response) ==
  [pc |-> "done", request |-> request, status |-> status, response |-> response]

SetUp(r, rec) == [i \in DOMAIN up \cup {r} |-> IF i = r THEN rec ELSE up[i]]

\* lines 173-203: the checks, and the name under which the file will be stored
UpStart(r, request) ==
  /\ r \notin DOMAIN up
  /\ \A i \in 1..(r - 1) : i \in DOMAIN up
  /\ up' = SetUp(r,
       IF "file" \notin DOMAIN request
       THEN UpResponse(request, 400,
                       \* 'No file provided'
                       [success |-> FALSE, error |-> <<"N", "o", " ", "f", "i", "l", "e",
                           " ", "p", "r", "o", "v", "i", "d", "e", "d">>])
       ELSE IF request.file.filename = <<>>
       THEN UpResponse(request, 400,
                       \* 'No file selected'
                       [success |-> FALSE, error |-> <<"N", "o", " ", "f", "i", "l", "e",
                           " ", "s", "e", "l", "e", "c", "t", "e", "d">>])
       ELSE
         LET filename == SecureFilename(request.file.filename)
             file_ext == Lower(PathSuffix(filename))
         IN  IF file_ext \notin SupportedKeys
             THEN UpResponse(request, 400,
                             [success |-> FALSE,
                              \* 'Unsupported file type: '
                              error |-> <<"U", "n", "s", "u", "p", "p", "o", "r", "t",
                                  "e", "d", " ", "f", "i", "l", "e", " ", "t", "y", "p",
                                  "e", ":", " ">> \o file_ext,
                              supported |-> [i \in DOMAIN SUPPORTED_EXTENSIONS |->
                                               SUPPORTED_EXTENSIONS[i][1]]])
             ELSE [pc |-> "save", request |-> request, filename |-> filename,
                   file_path |-> UploadFolder \o TimestampSeconds(clock)
                                   \o <<"_">> \o filename])
  /\ UNCHANGED <<mig, sq, rag, pcall, sql, fix, disk, clock, dirUp>>
  /\ UNCHANGED idxVars

\* line 205: file.save; fault: it raises
UpSave(r, fault) ==
  /\ r \in DOMAIN up
  /\ up[r].pc = "save"
  /\ IF fault
     THEN /\ up' = SetUp(r, UpResponse(up[r].request, 500,
                        \* 'No space left on device'
                        [success |-> FALSE, error |-> <<"N", "o", " ", "s", "p", "a", "c",
                            "e", " ", "l", "e", "f", "t", " ", "o", "n", " ", "d", "e",
                            "v", "i", "c", "e">>]))
          /\ UNCHANGED disk
     ELSE /\ disk' = SaveFile(disk, up[r].file_path, up[r].request.file.body)
          /\ up' = SetUp(r, [up[r] EXCEPT !.pc = "parse"])
  /\ UNCHANGED <<mig, sq, rag, pcall, sql, fix, clock, dirUp>>
  /\ UNCHANGED idxVars

\* lines 209-224: parse what is stored under the name, attach the tags
UpParse(r) ==
  /\ r \in DOMAIN up
  /\ up[r].pc = "parse"
  /\ LET parsed_doc == ParseRun(disk, up[r].file_path) IN
       up' = SetUp(r,
         IF ~parsed_doc.success
         THEN UpResponse(up[r].request, 500,
                [success |-> FALSE,
                 \* 'Failed to parse document: '
                 error |-> <<"F", "a", "i", "l", "e", "d", " ", "t", "o", " ", "p", "a",
                     "r", "s", "e", " ", "d", "o", "c", "u", "m", "e", "n", "t", ":",
                     " ">> \o parsed_doc.error])
         ELSE [pc |-> "index", request |-> up[r].request,
               filename |-> up[r].filename, file_path |-> up[r].file_path,
               parsed_doc |-> [k \in DOMAIN parsed_doc \cup {"tags"} |->
                                 IF k = "tags" THEN ParseTags(up[r].request.tags)
                                 ELSE parsed_doc[k]]])
  /\ UNCHANGED <<mig, sq, rag, pcall, sql, fix, disk, clock, dirUp>>
  /\ UNCHANGED idxVars

\* lines 227-248: index_document and the response
UpIndex(r, fault) ==
  /\ r \in DOMAIN up
  /\ up[r].pc = "index"
  /\ LET ir == IndexDocumentRun(indices, nextId, up[r].parsed_doc, clock, fault)
         p == up[r].parsed_doc
     IN  /\ indices' = ir.indices
         /\ nextId' = ir.nextId
         /\ up' = SetUp(r,
              IF ~ir.result.success
              THEN UpResponse(up[r].request, 500,
                     [success |-> FALSE,
                      \* 'Failed to index document: '
                      error |-> <<"F", "a", "i", "l", "e", "d", " ", "t", "o", " ", "i",
                          "n", "d", "e", "x", " ", "d", "o", "c", "u", "m", "e", "n", "t",
                          ":", " ">> \o ir.result.error])
              ELSE UpResponse(up[r].request, 200,
                     [success |-> TRUE,
                      \* 'Document uploaded and indexed successfully'
                      message |-> <<"D", "o", "c", "u", "m", "e", "n", "t", " ", "u", "p",
                          "l", "o", "a", "d", "e", "d", " ", "a", "n", "d", " ", "i", "n",
                          "d", "e", "x", "e", "d", " ", "s", "u", "c", "c", "e", "s", "s",
                          "f", "u", "l", "l", "y">>,
                      document |-> [id |-> ir.result.doc_id,
                                    filename |-> up[r].filename,
                                    type |-> p.type,
                                    size |-> p.metadata.size,
                                    keywords |-> Take(p.keywords, 10),
                                    tags |-> Get(p, "tags", <<>>)]]))
  /\ UNCHANGED <<written, lastOp, mig, sq, rag, pcall, sql, fix, disk, clock, dirUp>>

\* the clock reaches the next second
TickSecond ==
  /\ clock \div MicrosPerSecond < MaxClock
  /\ clock' = (clock \div MicrosPerSecond + 1) * MicrosPerSecond
  /\ UNCHANGED <<idxVars, mig, sq, rag, pcall, sql, fix, disk, up, dirUp>>

\* two requests, each served by its own worker
Uploaders == {1, 2}

NextUpload ==
  \/ \E r \in Uploaders, request \in UpRequests : UpStart(r, request)
  \/ \E r \in Uploaders, fault \in BOOLEAN : UpSave(r, fault)
  \/ \E r \in Uploaders : UpParse(r)
  \/ \E r \in Uploaders, fault \in BOOLEAN : UpIndex(r, fault)
  \/ TickSecond

SpecUpload == Init /\ [][NextUpload]_vars

-----------------------------------------------------------------------------
(* Claims about uploads that run side by side *)

\* C10: the record a successful upload has indexed names a stored file, and that
\* file holds the bytes this upload sent, whatever other uploads do.
C10_StoredFileIsOwnUpload ==
  \A r \in DOMAIN up :
    (up[r].pc = "done" /\ up[r].status = 200) =>
      LET doc == indices[IndexName].docs[up[r].response.document.id] IN
        /\ doc.file_path \in DOMAIN disk
        /\ disk[doc.file_path] = up[r].request.file.body

-----------------------------------------------------------------------------
(* document_parser.py: DocumentParser.parse called on paths of a folder that    *)
(* files are saved into                                                         *)

\* NAME_MAX of the file system: os.stat fails with ENAMETOOLONG on a longer name
NameMax == 255

\* line 100: Path.exists() is os.stat() with only ENOENT, ENOTDIR, EBADF and ELOOP
\* turned into False; reraises says whether this interpreter passes the other
\* errors of os.stat on (CPython up to 3.13) or turns them into False as well
ExistsRun(dsk, file_path, reraises) ==
  IF \E i \in 1..(Len(file_path) - NameMax) :
       \A j \in i..(i + NameMax) : file_path[j] # "/"
  THEN IF reraises THEN [raised |-> "OSError"] ELSE [raised |-> "", value |-> FALSE]
  ELSE [raised |-> "", value |-> file_path \in DOMAIN dsk]

\* lines 83-148, the call of exists() at line 100 included
ParseCall(dsk, file_path, reraises) ==
  LET e == ExistsRun(dsk, file_path, reraises) IN
    IF e.raised # "" THEN [raised |-> e.raised] ELSE ParseRun(dsk, file_path)

\* '/uploads/a.txt', '/uploads/A.TXT', '/uploads/b.pdf', '/uploads/x.exe',
\* '/uploads/notes'
StoredPaths ==
  {<<"/", "u", "p", "l", "o", "a", "d", "s", "/", "a", ".", "t", "x", "t">>, <<"/", "u",
      "p", "l", "o", "a", "d", "s", "/", "A", ".", "T", "X", "T">>,
   <<"/", "u", "p", "l", "o", "a", "d", "s", "/", "b", ".", "p", "d", "f">>, <<"/", "u",
       "p", "l", "o", "a", "d", "s", "/", "x", ".", "e", "x", "e">>,
   <<"/", "u", "p", "l", "o", "a", "d", "s", "/", "n", "o", "t", "e", "s">>}

\* a path whose file name is one character longer than NAME_MAX allows
LongPath == UploadFolder \o [i \in 1..(NameMax + 1) |-> "a"] \o <<".", "t", "x", "t">>

ParsePaths == StoredPaths \cup {LongPath}

Bodies == {BodyAlpha, BodyGamma, BodyBroken}

\* a file lands in the folder
Store(path, body) ==
  /\ disk' = SaveFile(disk, path, body)
  /\ UNCHANGED <<idxVars, mig, sq, rag, clock, up, dirUp, pcall, sql, fix>>

\* one call of parse; stored is what the path held when parse was called
Parse(file_path, reraises) ==
  /\ pcall' = [op |-> "parse", file_path |-> file_path,
               stored |-> IF file_path \in DOMAIN disk THEN <<disk[file_path]>> ELSE <<>>,
               result |-> ParseCall(disk, file_path, reraises)]
  /\ UNCHANGED <<idxVars, mig, sq, rag, disk, clock, up, dirUp, sql, fix>>

NextParse ==
  \/ \E path \in StoredPaths, body \in Bodies : Store(path, body)
  \/ \E file_path \in ParsePaths, reraises \in BOOLEAN : Parse(file_path, reraises)

SpecParse == Init /\ [][NextParse]_vars

\* C11: parse never raises for a file path: a missing file yields a failure result
\* saying the file was not found, an existing file whose lowercase extension has
\* no handler yields a failure result naming the unsupported extension, and an
\* exception of the format handler becomes a failure result with its message.
C11_ParseNeverRaises ==
  pcall.op = "parse" =>
    LET r == pcall.result
        p == pcall.file_path
        ext == Lower(PathSuffix(p))
    IN  /\ "raised" \notin DOMAIN r
        /\ pcall.stored = <<>> =>
             ~r.success /\ r.error = <<"F", "i", "l", "e", " ", "n", "o", "t", " ", "f",
                 "o", "u", "n", "d", ":", " ">> \o p
        /\ (pcall.stored # <<>> /\ ext \notin ParserKeys) =>
             ~r.success /\ r.error = <<"U", "n", "s", "u", "p", "p", "o", "r", "t", "e",
                 "d", " ", "f", "i", "l", "e", " ", "t", "y", "p", "e", ":", " ">> \o ext
        /\ (pcall.stored # <<>> /\ ext \in ParserKeys /\ ~pcall.stored[1].readable) =>
             ~r.success /\ r.error = pcall.stored[1].error

-----------------------------------------------------------------------------
(* document_parser.py: _extract_keywords and _generate_summary on texts *)

MaxWords == 3     \* words in a text put together from the vocabulary

\* 'Alpha', 'beta,', 'ALPHA.', 'the', 'file', 'abc', 'gamma-delta', 'més'
Vocabulary ==
  {<<"A", "l", "p", "h", "a">>, <<"b", "e", "t", "a", ",">>, <<"A", "L", "P", "H", "A",
      ".">>, <<"t", "h", "e">>,
   <<"f", "i", "l", "e">>, <<"a", "b", "c">>, <<"g", "a", "m", "m", "a", "-", "d", "e",
       "l", "t", "a">>, <<"m", "é", "s">>}

\* 'keya keyb keyc ...': n different words of four letters
DistinctWords(n) == [i \in 1..n |-> <<"k", "e", "y">> \o <<LowerCase[i]>>]

\* n different words, the last of them written a second time at the end
ManyWords(n) == Join(<<" ">>, Append(DistinctWords(n), DistinctWords(n)[n]))

KeywordTexts ==
  {Join(<<" ">>, ws) : ws \in UNION {[1..n -> Vocabulary] : n \in 0..MaxWords}}
    \cup {ManyWords(n) : n \in 19..22}

\* self._extract_keywords(content), as parse calls it at line 124
ExtractKeywordsCall(text) ==
  /\ pcall.op = "none"
  /\ pcall' = [op |-> "keywords", text |-> text, result |-> ExtractKeywords(text, 20)]
  /\ UNCHANGED <<idxVars, mig, sq, rag, disk, clock, up, dirUp, sql, fix>>

\* the caller has the result
HelperReturn ==
  /\ pcall.op # "none"
  /\ pcall' = [op |-> "none"]
  /\ UNCHANGED <<idxVars, mig, sq, rag, disk, clock, up, dirUp, sql, fix>>

NextKeywords ==
  \/ \E text \in KeywordTexts : ExtractKeywordsCall(text)
  \/ HelperReturn

SpecKeywords == Init /\ [][NextKeywords]_vars

\* the words of a text: its lowercase form cut at every character that is neither
\* a word character nor white space
WordsOf(text) ==
  Words([i \in DOMAIN text |->
           IF LowerChar(text[i]) \in WordChars \cup Whitespace
           THEN LowerChar(text[i]) ELSE " "])

\* how often w is among the words ws, and where it is first
Frequency(w, ws) == Cardinality({i \in DOMAIN ws : ws[i] = w})

FirstOccurrence(w, ws) ==
  CHOOSE i \in DOMAIN ws : ws[i] = w /\ \A j \in 1..(i - 1) : ws[j] # w

\* C15: the keyword list of a text has at most 20 entries, every entry is
\* lowercase, longer than 3 characters and not a stop-word, no entry occurs twice,
\* and the entries are in descending order of their frequency in the text, equal
\* frequencies in the order of first occurrence.
C15_KeywordsBoundedSortedDistinct ==
  pcall.op = "keywords" =>
    LET k == pcall.result
        t == WordsOf(pcall.text)
    IN  /\ Len(k) <= 20
        /\ \A i \in DOMAIN k :
             /\ \A c \in Range(k[i]) : c \notin Range(UpperCase)
             /\ Len(k[i]) > 3
             /\ k[i] \notin StopWords
        /\ \A i, j \in DOMAIN k : i < j =>
             /\ k[i] # k[j]
             /\ \/ Frequency(k[i], t) > Frequency(k[j], t)
                \/ /\ Frequency(k[i], t) = Frequency(k[j], t)
                   /\ FirstOccurrence(k[i], t) < FirstOccurrence(k[j], t)

\* 22 different words, the last one twice: it comes first, and two are cut off
C15_Witness ==
  /\ pcall.op = "keywords"
  /\ pcall.text = ManyWords(22)
  /\ Len(pcall.result) = 20
  /\ pcall.result[1] = <<"k", "e", "y", "v">>
  /\ pcall.result[2] = <<"k", "e", "y", "a">>

\* pieces of short texts: '.', ' ', 'ab', 'c.', NL
Pieces == {<<".">>, <<" ">>, <<"a", "b">>, <<"c", ".">>, <<NL>>}

RECURSIVE Concat(_)
Concat(parts) == IF parts = <<>> THEN <<>> ELSE Head(parts) \o Concat(Tail(parts))

\* n times 'a', the character at period (if any) replaced by '.'
LongText(n, period) == [i \in 1..n |-> IF i = period THEN "." ELSE "a"]

SummaryTexts ==
  {Concat(ps) : ps \in UNION {[1..n -> Pieces] : n \in 0..MaxWords}}
    \cup {LongText(n, period) : n \in 499..502, period \in {0, 1, 2, 250, 499, 500, 501}}

\* self._generate_summary(content), as parse calls it at line 127
GenerateSummaryCall(text) ==
  /\ pcall.op = "none"
  /\ pcall' = [op |-> "summary", text |-> text, result |-> GenerateSummary(text, 500)]
  /\ UNCHANGED <<idxVars, mig, sq, rag, disk, clock, up, dirUp, sql, fix>>

NextSummary ==
  \/ \E text \in SummaryTexts : GenerateSummaryCall(text)
  \/ HelperReturn

SpecSummary == Init /\ [][NextSummary]_vars

\* C16: the summary of a text is at most 500 characters long, and whenever the
\* first 500 characters of the text contain a sentence boundary (a period) the
\* summary ends at the last such boundary.
C16_SummaryEndsAtLastBoundary ==
  pcall.op = "summary" =>
    LET s == pcall.result
        head == Take(pcall.text, 500)
        last == RFind(head, ".")
    IN  /\ Len(s) <= 500
        /\ last > 0 =>
             /\ s # <<>>
             /\ s[Len(s)] = "."
             /\ \E i \in 1..last : s = SubSeq(head, i, last)

-----------------------------------------------------------------------------
(* Claims about the tags of an uploaded document *)

\* C17: the tag list attached to an uploaded document is the comma-separated tag
\* input split into entries, each trimmed, with blank entries and duplicate
\* entries removed and the order of first occurrence kept.
C17_TagsTrimmedDistinct ==
  \A r \in DOMAIN up :
    (up[r].pc = "done" /\ up[r].status = 200) =>
      LET doc == indices[IndexName].docs[up[r].response.document.id]
          entries == Split(up[r].request.tags, ",")
          trimmed == [i \in DOMAIN entries |-> StripStr(entries[i])]
      IN  /\ \A i, j \in DOMAIN doc.tags : i # j => doc.tags[i] # doc.tags[j]
          /\ doc.tags = FirstSeen(SelectSeq(trimmed, LAMBDA tag : tag # <<>>))

-----------------------------------------------------------------------------
(* Claims about the request search sends *)

\* the relevance part of a request body: the query itself, or what the boolean
\* query around the filters has under must
RelevancePart(body, filters) ==
  IF filters = <<>> THEN body.query
  ELSE IF "list" \in DOMAIN body.query.bool.must THEN body.query.bool.must.list[1]
  ELSE body.query.bool.must

IsMatchAllClause(rel) == rel = [match_all |-> EmptyRec]

\* one multi_match over the five boosted fields with fuzziness AUTO
IsBoostedFuzzyMatch(rel, q) ==
  /\ DOMAIN rel = {"bool"}
  /\ Len(rel.bool.should) = 1
  /\ DOMAIN rel.bool.should[1] = {"multi_match"}
  /\ rel.bool.should[1].multi_match.query = q
  /\ rel.bool.should[1].multi_match.fields
       = <<"content^1", "filename^3", "summary^2", "keywords^2", "tags^2">>
  /\ rel.bool.should[1].multi_match.fuzziness = "AUTO"

\* C18: search treats an empty query text and the literal wildcard '*' as
\* match-everything: the relevance clause of the request is match_all and no
\* multi-field match is sent; every other query text yields the boosted
\* multi-field fuzzy match.
C18_MatchAllForEmptyAndStarOnly ==
  sq.op = "search" =>
    \A n \in DOMAIN sq.requests :
      LET rel == RelevancePart(sq.requests[n], sq.filters) IN
        IF sq.query = <<>> \/ sq.query = <<"*">>
        THEN IsMatchAllClause(rel)
        ELSE IsBoostedFuzzyMatch(rel, sq.query)

\* C18 as amended: a query text that is empty, or is '*' once the white space
\* around it is removed, is match-everything; every other query text, a blank
\* one included, yields the boosted multi-field fuzzy match.
C18_MatchAllForEmptyAndStrippedStar ==
  sq.op = "search" =>
    \A n \in DOMAIN sq.requests :
      LET rel == RelevancePart(sq.requests[n], sq.filters) IN
        IF sq.query = <<>> \/ StripStr(sq.query) = <<"*">>
        THEN IsMatchAllClause(rel)
        ELSE IsBoostedFuzzyMatch(rel, sq.query)

\* ' * ' with a filter, answered by every document that has the tag
C18_Witness ==
  /\ sq.op = "search"
  /\ sq.query = <<" ", "*", " ">>
  /\ sq.filters # <<>>
  /\ sq.requests[1].query.bool.must = [match_all |-> EmptyRec]
  /\ sq.result.success /\ sq.result.total > 0

\* C19: every request search sends, for a match-all or a multi-field query, with
\* or without filters, on the first attempt and on the highlighting retry, orders
\* the hits by indexed_at descending and by no other key; the results come back
\* in that order.
C19_SortedByIndexedAtDescending ==
  sq.op = "search" =>
    /\ \A n \in DOMAIN sq.requests :
         sq.requests[n].sort = <<[indexed_at |-> [order |-> "desc"]]>>
    /\ \A n, m \in DOMAIN sq.result.results :
         n < m => sq.result.results[n].indexed_at >= sq.result.results[m].indexed_at

\* a multi-field query with a filter, answered on the retry by two documents
\* indexed at different times
C19_Witness ==
  /\ sq.op = "search"
  /\ Len(sq.requests) = 2
  /\ sq.filters # <<>>
  /\ ~IsMatchAll(sq.query)
  /\ Len(sq.result.results) = 2
  /\ sq.result.results[1].indexed_at > sq.result.results[2].indexed_at

\* C20: when filters are supplied, each filter is an exact-match term constraint
\* in the filter part of a boolean query whose must part is the relevance query
\* of the same search without filters, unchanged (alone, or as the only element
\* of a list); every returned hit satisfies every filter, for match-all queries
\* as well as for multi-field queries.
C20_FiltersAreTermConstraints ==
  (sq.op = "search" /\ sq.filters # <<>>) =>
    /\ \A n \in DOMAIN sq.requests :
         LET query == sq.requests[n].query IN
           /\ DOMAIN query = {"bool"}
           /\ DOMAIN query.bool = {"must", "filter"}
           /\ Len(query.bool.filter) = Len(sq.filters)
           /\ \A i \in DOMAIN sq.filters :
                query.bool.filter[i]
                  = [term |-> [field |-> sq.filters[i][1], value |-> sq.filters[i][2]]]
           /\ "list" \in DOMAIN query.bool.must => Len(query.bool.must.list) = 1
           /\ RelevancePart(sq.requests[n], sq.filters)
                = SearchBody(sq.query, sq.size, <<>>).query
    /\ \A k \in DOMAIN sq.result.results :
         \A i \in DOMAIN sq.filters :
           sq.filters[i][2] \in Range(sq.result.results[k][sq.filters[i][1]])

\* 'manual' asked of two documents tagged manual, with a filter that only one of
\* them passes
C20_Witness ==
  /\ sq.op = "search"
  /\ sq.query = <<"m", "a", "n", "u", "a", "l">>
  /\ sq.filters = <<<<"tags", <<"g", "u", "i", "d", "e">>>>>>
  /\ sq.size = 10
  /\ sq.result.success
  /\ sq.result.total = 1
  /\ Cardinality(DOMAIN indices[IndexName].docs) = 2
  /\ \A i \in DOMAIN indices[IndexName].docs :
       <<"m", "a", "n", "u", "a", "l">> \in Range(indices[IndexName].docs[i].tags)

-----------------------------------------------------------------------------
(* Claims about the keyword suggestions *)

\* the keywords that come before k when the keywords kws are put in descending
\* order of frequency, equal frequencies in the order of first occurrence
AheadOf(k, kws) ==
  {x \in Range(kws) :
     \/ Frequency(x, kws) > Frequency(k, kws)
     \/ /\ Frequency(x, kws) = Frequency(k, kws)
        /\ FirstOccurrence(x, kws) < FirstOccurrence(k, kws)}

SuggestedKeywords(suggestions) ==
  LET ks == SelectSeq(suggestions, IsKeywordSuggestion)
  IN  [i \in DOMAIN ks |-> StepBody(ks[i])]

\* C30: keyword suggestions are taken only from the 3 most frequent keywords of
\* the top 5 results (ties in first-seen order): a keyword dropped because it
\* occurs in the query is not replaced by the next most frequent keyword.
C30_SuggestionsFromTopThreeOnly ==
  RuleBasedCall =>
    LET kws == AllKeywords(Take(rag.results, 5))
        top3 == {k \in Range(kws) : Cardinality(AheadOf(k, kws)) < 3}
        suggested == SuggestedKeywords(rag.out.suggestions)
    IN  /\ Range(suggested)
             = {k \in top3 : ~Contains(Lower(k), Lower(rag.query))}
        /\ \A i, j \in DOMAIN suggested :
             i < j => suggested[i] \in AheadOf(suggested[j], kws)

\* beta, gamma and Alfa are the three most frequent; Alfa is in the query, and
\* delta, which is not, does not take its place
C30_Witness ==
  /\ RuleBasedCall
  /\ rag.query = <<"C", "o", "m", "e", " ", "a", "l", "f", "a">>
  /\ rag.results = <<ResultGuida, ResultNote, ResultDelta>>
  /\ SuggestedKeywords(rag.out.suggestions) = <<<<"b", "e", "t", "a">>, <<"g", "a", "m",
      "m", "a">>>>

-----------------------------------------------------------------------------
(* rag_engine.py: _parse_openai_response on replies put together from lines *)

MaxLines == 3     \* lines in a reply put together from ReplyLines

\* 'Risposta:', 'ANSWER: yes', ' flusso: ', 'Flow:', 'Suggerimenti', 'my suggestion',
\* '', ' a ', 'b'
ReplyLines ==
  {<<"R", "i", "s", "p", "o", "s", "t", "a", ":">>, <<"A", "N", "S", "W", "E", "R", ":",
      " ", "y", "e", "s">>, <<" ", "f", "l", "u", "s", "s", "o", ":", " ">>, <<"F", "l",
      "o", "w", ":">>,
   <<"S", "u", "g", "g", "e", "r", "i", "m", "e", "n", "t", "i">>, <<"m", "y", " ", "s",
       "u", "g", "g", "e", "s", "t", "i", "o", "n">>, <<>>, <<" ", "a", " ">>, <<"b">>}

\* a suggestions header followed by n lines
ManySuggestions(n) ==
  Join(<<NL>>, <<<<"S", "u", "g", "g", "e", "s", "t", "i", "o", "n", "s",
      ":">>>> \o [i \in 1..n |-> <<LowerCase[i]>>])

ReplyTexts ==
  {Join(<<NL>>, ls) : ls \in UNION {[1..n -> ReplyLines] : n \in 0..MaxLines}}
    \cup {ManySuggestions(n) : n \in 4..7}

\* self._parse_openai_response(response_text), as _generate_openai_answer calls it
ParseOpenAIResponseCall(response_text) ==
  /\ pcall.op = "none"
  /\ pcall' = [op |-> "parse_reply", text |-> response_text,
               result |-> ParseOpenAIResponse(response_text)]
  /\ UNCHANGED <<idxVars, mig, sq, rag, disk, clock, up, dirUp, sql, fix>>

NextReply ==
  \/ \E response_text \in ReplyTexts : ParseOpenAIResponseCall(response_text)
  \/ HelperReturn

SpecReply == Init /\ [][NextReply]_vars

\* which section a line opens: the flow marker is looked for first, then the
\* suggestions marker, then the answer marker
HeaderOf(line) ==
  LET u == Upper(line) IN
    IF Contains(<<"F", "L", "U", "S", "S", "O", ":">>, u) \/ Contains(<<"F", "L", "O",
        "W", ":">>, u) THEN "flow"
    ELSE IF Contains(<<"S", "U", "G", "G", "E", "R", "I", "M", "E", "N", "T">>,
        u) \/ Contains(<<"S", "U", "G", "G", "E", "S", "T", "I", "O", "N">>, u)
    THEN "suggestions"
    ELSE IF Contains(<<"R", "I", "S", "P", "O", "S", "T", "A", ":">>,
        u) \/ Contains(<<"A", "N", "S", "W", "E", "R", ":">>, u) THEN "answer"
    ELSE "none"

\* the section line i of lines falls in: that of the last header up to it, the
\* answer before any header
SectionAt(lines, i) ==
  LET headers == {j \in 1..i : HeaderOf(lines[j]) # "none"} IN
    IF headers = {} THEN "answer"
    ELSE HeaderOf(lines[CHOOSE j \in headers : \A k \in headers : k <= j])

\* the lines of a section, headers left out, in their order
LinesOf(lines, section) ==
  LET at == SelectSeq([i \in DOMAIN lines |-> i],
                      LAMBDA i : HeaderOf(lines[i]) = "none"
                                   /\ SectionAt(lines, i) = section)
  IN  [n \in DOMAIN at |-> lines[at[n]]]

\* the lines as a list keeps them: trimmed, blank ones left out
Collected(ls) ==
  SelectSeq([n \in DOMAIN ls |-> StripStr(ls[n])], LAMBDA l : l # <<>>)

\* C23: the generative reply is parsed line by line: a line containing an answer,
\* flow or suggestions header marker (case-insensitive, Italian or English)
\* switches the current section, and each following line is put in the current
\* section (trimmed and, when not blank, into the flow and the suggestions, of
\* which five are kept); when no flow line is collected the flow is the single
\* default step, and when no suggestion line is collected the suggestions are
\* empty.
C23_ReplyParsedBySections ==
  pcall.op = "parse_reply" =>
    LET lines == Split(pcall.text, NL)
        flow_lines == Collected(LinesOf(lines, "flow"))
        suggestion_lines == Collected(LinesOf(lines, "suggestions"))
    IN  /\ pcall.result.answer = StripStr(Join(<<NL>>, LinesOf(lines, "answer")))
        /\ flow_lines # <<>> => pcall.result.flow = flow_lines
        /\ flow_lines = <<>>
             => pcall.result.flow = <<<<"C", "o", "n", "s", "u", "l", "t", "a", " ", "i",
                 " ", "d", "o", "c", "u", "m", "e", "n", "t", "i", " ", "t", "r", "o",
                 "v", "a", "t", "i">>>>
        /\ pcall.result.suggestions = Take(suggestion_lines, 5)
        /\ suggestion_lines = <<>> => pcall.result.suggestions = <<>>

\* a lowercase Italian flow header, a flow line, then an English answer header
C23_Witness ==
  /\ pcall.op = "parse_reply"
  /\ pcall.text = Join(<<NL>>, <<<<" ", "f", "l", "u", "s", "s", "o", ":", " ">>, <<" ",
      "a", " ">>, <<"A", "N", "S", "W", "E", "R", ":", " ", "y", "e", "s">>>>)
  /\ pcall.result.flow = <<<<"a">>>>
  /\ pcall.result.answer = <<>>
  /\ pcall.result.suggestions = <<>>

-----------------------------------------------------------------------------
(* The upload service: one request, and two requests side by side *)

Operations == {"insert", "upsert", "update"}

\* one request at a time
NextUpsert ==
  \/ \E data \in DataLists, primary_key \in {None, "id"}, connects \in BOOLEAN :
       UpsertData(1, data, primary_key, connects)
  \/ \E operation \in Operations, primary_key \in {None, "id"}, data \in DataLists,
        connects \in BOOLEAN :
       UploadCsv(1, operation, primary_key, data, connects)
  \/ UpsertCheck(1)
  \/ \E unique \in BOOLEAN : UpsertWrite(1, unique)
  \/ \E unique \in BOOLEAN : UpsertCommit(1, unique)
  \/ \E unique \in BOOLEAN : InsertRows(1, unique)

SpecUpsert == Init /\ [][NextUpsert]_vars

\* two upsert requests side by side, each on its own connection
NextConcurrent ==
  \E r \in Requests :
    \/ \E data \in ConcurrentData : UpsertData(r, data, "id", TRUE)
    \/ UpsertCheck(r)
    \/ \E unique \in BOOLEAN : UpsertWrite(r, unique)
    \/ \E unique \in BOOLEAN : UpsertCommit(r, unique)

SpecConcurrent == Init /\ [][NextConcurrent]_vars

-----------------------------------------------------------------------------
(* Claims about the upload service *)

\* the keys of the rows, and how many rows the table holds for a key
KeysOf(data, key) == {data[n][key] : n \in DOMAIN data}
RowsWithKey(table, key, value) ==
  Cardinality({n \in DOMAIN table : table[n][key] = value})

\* the last row of data with the key value
LastRowFor(data, key, value) ==
  data[CHOOSE n \in DOMAIN data :
         /\ data[n][key] = value
         /\ \A m \in DOMAIN data : data[m][key] = value => m <= n]

\* an upsert request with a primary key whose rows all carry it, on a database
\* that accepts the connection
UpsertOfKeyedRows(q) ==
  /\ q.pc = "done" /\ q.via = "upsert"
  /\ q.primary_key # None
  /\ q.connection # "failed"
  /\ \A n \in DOMAIN q.data : q.primary_key \in DOMAIN q.data[n]

\* C24: an upsert over a list of rows updates every row whose primary-key value
\* already exists in the table and inserts every row whose key does not, and
\* reports rows_inserted + rows_updated equal to the number of rows; an upsert
\* request without primary_key is rejected with a 400 error before any database
\* connection is opened.
C24_UpsertUpdatesOrInserts ==
  LET q == sql.req[1]
      fresh == KeysOf(q.data, q.primary_key) \ KeysOf(SqlInit.table, q.primary_key)
  IN  /\ (q.pc = "done" /\ q.via = "upsert" /\ q.primary_key = None)
           => q.status_code = 400 /\ q.connection = "none"
      /\ UpsertOfKeyedRows(q)
           => /\ q.status_code = 200
              /\ q.rows_inserted + q.rows_updated = Len(q.data)
              /\ q.rows_inserted = Cardinality(fresh)
              /\ \A k \in KeysOf(q.data, q.primary_key) :
                   /\ RowsWithKey(sql.table, q.primary_key, k) = 1
                   /\ \E n \in DOMAIN sql.table :
                        LET row == LastRowFor(q.data, q.primary_key, k) IN
                          /\ sql.table[n][q.primary_key] = k
                          /\ \A c \in DOMAIN row : sql.table[n][c] = row[c]

\* C29: upload_csv called with an operation other than insert or upsert answers
\* with status 400, and an upsert through upload_csv without primary_key answers
\* with status 400; neither is turned into a 500 server error.
C29_UploadCsvAnswers400 ==
  LET q == sql.req[1] IN
    (/\ q.pc = "done" /\ q.via = "upload_csv"
     /\ \/ q.operation \notin {"insert", "upsert"}
        \/ q.operation = "upsert" /\ q.primary_key = None)
      => q.status_code = 400

\* both requests have upserted the one row with the new key
BothUpsertedNewKey ==
  \A r \in Requests : sql.req[r].pc = "done" /\ sql.req[r].data = <<RowNew>>

\* C28: two upsert requests for the same primary-key value that run concurrently
\* against a table without that key never both take the insert branch:
\* afterwards the table holds exactly one row for that key and the two requests
\* report one insert and one update in total.
C28_NoDoubleInsert ==
  BothUpsertedNewKey
    => /\ RowsWithKey(sql.table, "id", RowNew.id) = 1
       /\ \A r \in Requests : sql.req[r].status_code = 200
       /\ sql.req[1].rows_inserted + sql.req[2].rows_inserted = 1
       /\ sql.req[1].rows_updated + sql.req[2].rows_updated = 1

-----------------------------------------------------------------------------
(* fix_index_highlighting.py run beside the manager's writes *)

\* a write to a closed index is refused by the backend
NextFix ==
  \/ FixIndexHighlighting
  \/ \E p \in {ParsedA, ParsedB} : IndexDocument(p, fix.closed)
  \/ \E failAt \in 0..4 : ~fix.closed /\ CreateIndex(TRUE, failAt)

SpecFix == Init /\ [][NextFix]_vars

\* C26: on every terminating path of the highlighting-settings script that has
\* closed the index (success, request error from the settings update, any other
\* error), the index is open again when the script ends; paths on which the
\* backend refuses the open request itself are left aside.
C26_IndexOpenAgainAtEnd ==
  (fix.pc = "done" /\ fix.hasClosed /\ ~fix.openRefused) => ~fix.closed

-----------------------------------------------------------------------------
(* app.py, api_search: the results of search go to generate_answer *)

MaxHits == 3      \* documents the index of api_search holds

\* the highlight of a result as the text the answer engine reads (the marks the
\* backend puts around the words are left out)
HighlightText(h) ==
  IF "head300" \in DOMAIN h THEN Take(h.head300, 300)
  ELSE IF "joined" \in DOMAIN h
  THEN Join(<<" ", ".", ".", ".", " ">>, [n \in DOMAIN h.joined |-> h.joined[n].text])
  ELSE h.text

ContextResults(results) ==
  [n \in DOMAIN results |-> [results[n] EXCEPT !.highlight = HighlightText(@)]]

\* lines 127-140: a failed search is answered with 500; the results of a
\* successful one are handed to the answer engine
ApiSearchAnswer(reply) ==
  /\ sq.op = "search" /\ sq.result.success
  /\ GenerateAnswer(sq.query, ContextResults(sq.result.results), reply)

\* '*', 'Alpha', 'manual', 'zzz': api_search refuses an empty query
AskQueries == {q \in Queries : StripStr(q) = q /\ q # <<>>}

NextAsk ==
  \/ \E p \in {ParsedA, ParsedB} : IndexDocumentUpTo(p, FALSE, MaxHits)
  \/ \E use_openai \in BOOLEAN, order \in TypeOrders :
       RagStart(use_openai, TRUE, order)
  \/ \E q \in AskQueries, size \in Sizes, out1 \in Outcomes :
       Search(q, size, <<>>, out1, Answered)
  \/ SearchReturn
  \/ \E reply \in {RaiseTimeout, ReplyPlain} : ApiSearchAnswer(reply)
  \/ RagReturn

SpecAsk == Init /\ [][NextAsk]_vars

\* a rule-based answer to the results of the search that is still at hand
AnsweredFromSearch ==
  /\ RuleBasedCall
  /\ sq.op = "search" /\ sq.result.success
  /\ rag.results = ContextResults(sq.result.results)

\* C27: for results produced by search, which always sorts by indexed_at so that
\* the backend omits relevance scores and every result's score defaults to 1.0,
\* the rule-based confidence does not depend on the query or on the documents:
\* it is 0.05 for one or two results and 0.06 for three or more.
C27_ConfidenceOfSearchResults ==
  AnsweredFromSearch
    => /\ \A n \in DOMAIN sq.requests :
            sq.requests[n].sort = <<[indexed_at |-> [order |-> "desc"]]>>
       /\ \A n \in DOMAIN rag.results : rag.results[n].score = DefaultScore
       /\ Len(rag.results) \in {1, 2} => rag.out.confidence = 5
       /\ Len(rag.results) >= 3 => rag.out.confidence = 6

\* three hits, answered by the rule-based strategy with confidence 0.06
C27_Witness ==
  /\ AnsweredFromSearch
  /\ Len(rag.results) = 3
  /\ rag.out.confidence = 6
=============================================================================
